---------------------------- MODULE Spec2Model ----------------------------
(***************************************************************************)
(* A model of glam: the component-tag parser, the lowering compiler and    *)
(* the engine (registry, deferred recompilation, render entry point).      *)
(*                                                                         *)
(* Text is a sequence of runes.  A rune is a TLA+ string; a run of letters *)
(* that the scanners never split ("Children", "range", "glam__dot__") is   *)
(* one rune of the model.  Positions are Go's 0-based indices: runes[p] is *)
(* At(rs, p).  Component names, attribute names and values are rune        *)
(* sequences, as string(runes[a:b]) makes them.                            *)
(***************************************************************************)
EXTENDS Integers, Sequences, FiniteSets, TLC

(***************************************************************************)
(* Bounds of the model.                                                    *)
(***************************************************************************)
\* registrations performed in one behaviour of the engine
MaxRegs == 3
\* nesting of component renders before the Go stack is taken to be exhausted
MaxDepth == 4
\* fragments concatenated into one parser input
MaxFrags == 3

(***************************************************************************)
(* Runes and the unicode classes the scanners use.                         *)
(***************************************************************************)
\* the value read past the end of the slice (Go panics on that read)
EOF == "EOF"
\* the zero rune the runtime leaves between len and cap of []rune(s)
NUL == "NUL"

\* the rune of a back quote, which opens a raw string of the host language
BackQuote == "bq"

\* unicode.IsSpace
SpaceRunes == {" ", "\t", "\n"}
\* unicode.IsUpper: capitalised letter runs
UpperRunes == {"A", "B", "C", "W", "Y", "P", "R", "Q", "V", "U", "N", "L", "F", "G", "H", "T",
               "Children", "Title", "Panic", "Hi"}
\* lower-case letter runs
LowerRunes == {"a", "b", "c", "d", "i", "x", "y", "z", "p", "int", "hello", "true", "range", "end",
               "define", "nil"}
\* letter runs holding an underscore: identifier runes that are not letters only
UnderRunes == {"_", "__", "glam__", "glam__dot__", "glam__root__", "glam__locals__",
               "__glamDict", "__glamRenderComponent"}
\* hexadecimal output of randomString
HexRunes == {"r1", "r2", "r3"}
\* unicode.IsDigit
DigitRunes == {"0", "1"}

IsSpace(r) == r \in SpaceRunes
IsUpper(r) == r \in UpperRunes
IsLower(r) == r \in LowerRunes
IsLetter(r) == r \in UpperRunes \cup LowerRunes \cup HexRunes
IsDigit(r) == r \in DigitRunes

Min(S) == CHOOSE x \in S : \A y \in S : x <= y

\* runes[p]; EOF when p is outside the slice
At(rs, p) == IF p >= 0 /\ p < Len(rs) THEN rs[p + 1] ELSE EOF

\* the index where "for !stop(runes[pos]) { pos++ }" ends: the first index
\* at or after p holding a rune of stops, or the index whose read panics
ScanTo(rs, p, stops) ==
    LET hits == {q \in p .. (Len(rs) - 1) : rs[q + 1] \in stops}
    IN  IF hits # {} THEN Min(hits) ELSE IF p > Len(rs) THEN p ELSE Len(rs)

\* runes[a:b] for a slice of length Len(rs) and capacity cp: a panic unless
\* 0 <= a <= b <= cp; the runes between len and cap are zero
Slice(rs, a, b, cp) ==
    IF a < 0 \/ a > b \/ b > cp
    THEN [st |-> "panic", v |-> <<>>]
    ELSE [st |-> "ok",
          v |-> [i \in 1 .. (b - a) |-> IF a + i <= Len(rs) THEN rs[a + i] ELSE NUL]]

(***************************************************************************)
(* Nodes.                                                                  *)
(***************************************************************************)
NodeTypeComponent == "Component"
NodeTypeRaw == "Raw"

NoAttrs == [k \in {} |-> <<>>]

RawNode(text) ==
    [Type |-> NodeTypeRaw, TagName |-> <<>>, Attributes |-> NoAttrs,
     Children |-> <<>>, Raw |-> text]

ComponentNode(tagName, attrs, children) ==
    [Type |-> NodeTypeComponent, TagName |-> tagName, Attributes |-> attrs,
     Children |-> children, Raw |-> <<>>]

\* attributes[name] = value
PutAttr(attrs, name, value) ==
    [k \in DOMAIN attrs \cup {name} |-> IF k = name THEN value ELSE attrs[k]]

(***************************************************************************)
(* The scanner.  Every result carries st: "ok", "panic" (an index or slice *)
(* out of range, or an explicit panic) or "hang" (a loop that never        *)
(* advances), and the cursor pos.                                          *)
(***************************************************************************)
skipWhitespace(rs, p) ==
    LET Stopped(q) == [st |-> IF q >= Len(rs) THEN "panic" ELSE "ok", pos |-> q]
    IN  Stopped(ScanTo(rs, p, (({rs[i] : i \in 1 .. Len(rs)}) \ SpaceRunes)))

RECURSIVE skipGoTemplateLoop(_, _)
skipGoTemplateLoop(rs, p) ==
    IF At(rs, p) = EOF THEN [st |-> "panic", pos |-> p]
    ELSE IF At(rs, p) = "}" THEN [st |-> "ok", pos |-> p]
    ELSE IF At(rs, p + 1) = EOF THEN [st |-> "panic", pos |-> p]
    ELSE IF At(rs, p + 1) = "}" THEN [st |-> "ok", pos |-> p]
    ELSE skipGoTemplateLoop(rs, p + 1)

skipGoTemplate(rs, p) ==
    LET Closed(l) == IF l.st # "ok" THEN l ELSE [st |-> "ok", pos |-> l.pos + 2]
    IN  Closed(skipGoTemplateLoop(rs, p + 2))

RECURSIVE parseQuotedAttributeLoop(_, _, _, _)
parseQuotedAttributeLoop(rs, p, quote, valueStart) ==
    LET Skipped(s) ==
            IF s.st # "ok" THEN [st |-> s.st, pos |-> s.pos, value |-> <<>>]
            ELSE parseQuotedAttributeLoop(rs, s.pos, quote, valueStart)
    IN  CASE At(rs, p) = EOF -> [st |-> "panic", pos |-> p, value |-> <<>>]
          [] At(rs, p) = quote ->
                [st |-> "ok", pos |-> p + 1, value |-> SubSeq(rs, valueStart + 1, p)]
          [] At(rs, p) = "{" /\ At(rs, p) # quote ->
                IF At(rs, p + 1) = EOF THEN [st |-> "panic", pos |-> p, value |-> <<>>]
                ELSE IF At(rs, p + 1) = "{" THEN Skipped(skipGoTemplate(rs, p))
                ELSE [st |-> "hang", pos |-> p, value |-> <<>>]
          [] OTHER -> parseQuotedAttributeLoop(rs, p + 1, quote, valueStart)

parseQuotedAttribute(rs, p) ==
    IF At(rs, p) = EOF THEN [st |-> "panic", pos |-> p, value |-> <<>>]
    ELSE parseQuotedAttributeLoop(rs, p + 1, rs[p + 1], p + 1)

RECURSIVE parseAttributesLoop(_, _, _)
parseAttributesLoop(rs, p, attrs) ==
    LET Fail(r) == [st |-> r.st, pos |-> r.pos, attrs |-> attrs]
        \* a.skipWhitespace(), then the next turn of the loop
        Continue(w, next) ==
            IF w.st # "ok" THEN Fail(w) ELSE parseAttributesLoop(rs, w.pos, next)
        Valued(v, name) ==
            IF v.st # "ok" THEN Fail(v)
            ELSE Continue(skipWhitespace(rs, v.pos), PutAttr(attrs, name, v.value))
        Named(q, name) ==
            CASE At(rs, q) = EOF -> [st |-> "panic", pos |-> q, attrs |-> attrs]
              [] At(rs, q) = ">" ->
                    [st |-> "ok", pos |-> q, attrs |-> PutAttr(attrs, name, <<"true">>)]
              [] At(rs, q) = "=" -> Valued(parseQuotedAttribute(rs, q + 1), name)
              [] OTHER ->
                    Continue(skipWhitespace(rs, q),
                             IF At(rs, q) = " " THEN PutAttr(attrs, name, <<"true">>)
                             ELSE attrs)
        Scanned(q) == Named(q, SubSeq(rs, p + 1, q))
    IN  IF At(rs, p) = EOF THEN [st |-> "panic", pos |-> p, attrs |-> attrs]
        ELSE IF At(rs, p) = ">" THEN [st |-> "ok", pos |-> p, attrs |-> attrs]
        ELSE Scanned(ScanTo(rs, p, SpaceRunes \cup {"="}))

parseAttributes(rs, p) ==
    LET Skipped(w) ==
            IF w.st # "ok" THEN [st |-> w.st, pos |-> w.pos, attrs |-> NoAttrs]
            ELSE parseAttributesLoop(rs, w.pos, NoAttrs)
    IN  IF At(rs, p) = EOF THEN [st |-> "panic", pos |-> p, attrs |-> NoAttrs]
        ELSE IF At(rs, p) = ">" THEN [st |-> "ok", pos |-> p, attrs |-> NoAttrs]
        ELSE Skipped(skipWhitespace(rs, p))

\* components[string(tagName)] of parse's components map
IsKnown(components, tagName) == tagName \in components

TagFail(st, p, pot) == [st |-> st, pos |-> p, node |-> RawNode(<<>>), pot |-> pot]

ListFail(st, p, pot) == [st |-> st, pos |-> p, nodes |-> <<>>, pot |-> pot]

\* the cursor after "for runes[pos] != ' ' && runes[pos] != '>' { pos++ }"
tagNameEnd(rs, p) == ScanTo(rs, p, {" ", ">"})

\* a raw node over runes[start:end], or the panic of the slice expression
RawTag(rs, start, end, pot, cp) ==
    LET Sliced(raw) ==
            IF raw.st # "ok" THEN TagFail("panic", end, pot)
            ELSE [st |-> "ok", pos |-> end, node |-> RawNode(raw.v), pot |-> pot]
    IN  Sliced(Slice(rs, start, end, cp))

RECURSIVE parseTag(_, _, _, _, _)
RECURSIVE parseUntilCloseTagLoop(_, _, _, _, _, _, _, _)

parseUntilCloseTag(rs, p, tagName, components, pot, cp) ==
    parseUntilCloseTagLoop(rs, p, p, <<>>, tagName, components, pot, cp)

\* the raw-tag tail of parseTag (lines 177-206), entered with the cursor at p
parseRawTag(rs, start, p, pot, cp) ==
    LET Skipped(w) ==
            IF w.st # "ok" THEN TagFail(w.st, w.pos, pot)
            ELSE IF At(rs, w.pos) # ">" THEN TagFail("panic", w.pos, pot)
            ELSE RawTag(rs, start, w.pos + 1, pot, cp)
        Attributed(a) ==
            IF a.st # "ok" THEN TagFail(a.st, a.pos, pot)
            ELSE Skipped(skipWhitespace(rs, a.pos))
        Named(q) ==
            IF q >= Len(rs) THEN TagFail("panic", q, pot)
            ELSE Attributed(parseAttributes(rs, q))
    IN  Named(tagNameEnd(rs, p))

\* a closing tag met by parseTag (lines 102-115)
parseClosingTag(rs, start, p, pot, cp) ==
    LET Scanned(q) ==
            IF q >= Len(rs) THEN TagFail("panic", q, pot)
            ELSE RawTag(rs, start, q + 1, pot, cp)
    IN  Scanned(ScanTo(rs, p, {">"}))

\* an upper-case tag name (lines 119-175)
parseUpperTag(rs, start, p, components, pot, cp) ==
    LET Closed(tagName, a, c) ==
            IF c.st # "ok" THEN TagFail(c.st, c.pos, c.pot)
            ELSE [st |-> "ok", pos |-> c.pos,
                  node |-> ComponentNode(tagName, a.attrs, c.nodes), pot |-> c.pot]
        Attributed(tagName, a) ==
            IF a.st # "ok" THEN TagFail(a.st, a.pos, pot)
            ELSE IF At(rs, a.pos) # ">" THEN parseRawTag(rs, start, a.pos, pot, cp)
            ELSE IF IsKnown(components, tagName)
            THEN Closed(tagName, a,
                        parseUntilCloseTag(rs, a.pos + 1, tagName, components, pot, cp))
            ELSE RawTag(rs, start, a.pos + 2, pot \cup {tagName}, cp)
        Named(q) ==
            IF q >= Len(rs) THEN TagFail("panic", q, pot)
            ELSE Attributed(SubSeq(rs, p + 1, q), parseAttributes(rs, q))
    IN  Named(tagNameEnd(rs, p))

parseTag(rs, p, components, pot, cp) ==
    IF At(rs, p) # "<" \/ At(rs, p + 1) = EOF THEN TagFail("panic", p, pot)
    ELSE IF At(rs, p + 1) = "/" THEN parseClosingTag(rs, p, p + 1, pot, cp)
    ELSE IF IsUpper(At(rs, p + 1)) THEN parseUpperTag(rs, p, p + 1, components, pot, cp)
    ELSE parseRawTag(rs, p, p + 1, pot, cp)

parseUntilCloseTagLoop(rs, p, start, nodes, tagName, components, pot, cp) ==
    LET Skip(q) == parseUntilCloseTagLoop(rs, q, start, nodes, tagName, components, pot, cp)
        EndTag(q) ==
            IF q >= Len(rs) THEN ListFail("panic", q, pot)
            ELSE IF SubSeq(rs, p + 3, q) = tagName
            THEN [st |-> "ok", pos |-> q + 1, pot |-> pot,
                  nodes |-> IF start # p
                            THEN Append(nodes, RawNode(SubSeq(rs, start + 1, p)))
                            ELSE nodes]
            ELSE Skip(q + 1)
        Nested(raw, n) ==
            IF raw.st # "ok" THEN ListFail("panic", p, pot)
            ELSE IF n.st # "ok" THEN ListFail(n.st, n.pos, n.pot)
            ELSE parseUntilCloseTagLoop(rs, n.pos, n.pos,
                                        Append(Append(nodes, RawNode(raw.v)), n.node),
                                        tagName, components, n.pot, cp)
    IN  IF p >= Len(rs) THEN ListFail("panic", p, pot)
        ELSE IF rs[p + 1] # "<" THEN Skip(p + 1)
        ELSE IF At(rs, p + 1) = EOF THEN ListFail("panic", p, pot)
        ELSE IF At(rs, p + 1) = "/" THEN EndTag(ScanTo(rs, p + 2, {">"}))
        ELSE IF IsLetter(At(rs, p + 1))
        THEN Nested(Slice(rs, start, p - 1, cp), parseTag(rs, p, components, pot, cp))
        ELSE Skip(p + 1)

RECURSIVE parseRootLoop(_, _, _, _, _, _, _)
parseRootLoop(rs, p, start, nodes, components, pot, cp) ==
    LET Tagged(n, flushed) ==
            IF n.st # "ok" THEN ListFail(n.st, n.pos, n.pot)
            ELSE parseRootLoop(rs, n.pos, n.pos, Append(flushed, n.node), components, n.pot, cp)
    IN  IF p >= Len(rs) THEN [st |-> "ok", pos |-> p, nodes |-> nodes, pot |-> pot]
        ELSE IF rs[p + 1] # "<"
        THEN parseRootLoop(rs, p + 1, start, nodes, components, pot, cp)
        ELSE Tagged(parseTag(rs, p, components, pot, cp),
                    IF start # p THEN Append(nodes, RawNode(SubSeq(rs, start + 1, p)))
                    ELSE nodes)

\* parseRoot over []rune(rawContent) whose capacity is cp
parseRoot(rs, components, cp) == parseRootLoop(rs, 0, 0, <<>>, components, {}, cp)

(***************************************************************************)
(* The lowering compiler.                                                  *)
(*                                                                         *)
(* Two things the Go runtime decides are parameters here: rnd, the stream  *)
(* of values randomString returns (read cyclically), and ord, the order in *)
(* which a range statement walks a map.                                    *)
(***************************************************************************)
rootPrefix == "glam__root__"
localsPrefix == "glam__locals__"
dotPrefix == "glam__dot__"

MapOrders == {"fwd", "rev"}

RECURSIVE Concat(_)
\* strings.Join(ss, "")
Concat(ss) == IF ss = <<>> THEN <<>> ELSE Head(ss) \o Concat(Tail(ss))

Reverse(q) == [i \in 1 .. Len(q) |-> q[Len(q) + 1 - i]]

\* the keys of a map in the order one range statement visits them
RangeOrder(keys, ord) ==
    LET n == Cardinality(keys)
        f == CHOOSE g \in [1 .. n -> keys] : \A i, j \in 1 .. n : i # j => g[i] # g[j]
    IN  IF ord = "fwd" THEN f ELSE Reverse(f)

\* a source of random values that yields the same value at every call
randomStringStuck(rnd, i) == rnd[1]

\* the i-th value (from 0) that randomString returns
randomString(rnd, i) == rnd[(i % Len(rnd)) + 1]

\* strings.HasPrefix(v, "{{")
HasActionPrefix(v) == Len(v) >= 2 /\ v[1] = "{" /\ v[2] = "{"

\* strings.Trim(v, cutset)
Trim(v, cutset) ==
    LET keep == {i \in 1 .. Len(v) : v[i] \notin cutset}
    IN  IF keep = {} THEN <<>>
        ELSE SubSeq(v, Min(keep), CHOOSE m \in keep : \A i \in keep : i <= m)

isIdentRune(r, pos) ==
    IF pos = 0 THEN IsLetter(r) \/ r \in UnderRunes
    ELSE IsLetter(r) \/ IsDigit(r) \/ r \in UnderRunes

\* the end j of "for j < len(input) && isIdentRune(input[j], j-i) { j++ }"
identEnd(input, i) ==
    LET stop == {j \in i .. (Len(input) - 1) : ~isIdentRune(input[j + 1], j - i)}
    IN  IF stop = {} THEN IF i > Len(input) THEN i ELSE Len(input) ELSE Min(stop)

RECURSIVE rewriteLoop(_, _, _, _, _, _, _)
\* the loop of rewriteTemplateRunes over input from index i, with its three
\* flags and the locals collected so far
rewriteLoop(input, i, out, inAction, inString, inTemplateString, locals) ==
    LET \* the common tail: append to the output, continue inside the action
        Emit(j, text, seen) ==
            rewriteLoop(input, j, out \o text, TRUE, FALSE, FALSE, seen)
        \* "$" followed by the identifier ending at j (lines 168-190)
        Dollar(j) ==
            IF j = i + 1
            THEN IF At(input, i + 1) = EOF THEN [st |-> "panic", out |-> out, locals |-> locals]
                 ELSE IF At(input, i + 1) = "."
                 THEN Emit(j + 1, <<".", rootPrefix, ".">>, locals)
                 ELSE Emit(j, <<".", rootPrefix>>, locals)
            ELSE Emit(j, <<".", localsPrefix, ".">> \o SubSeq(input, i + 2, j),
                      Append(locals, SubSeq(input, i + 2, j)))
        \* "." followed by the identifier ending at j (lines 193-207)
        Dot(j) ==
            IF j = i + 1 THEN Emit(j, <<".", dotPrefix>>, locals)
            ELSE Emit(j, <<".", dotPrefix, ".">> \o SubSeq(input, i + 2, j), locals)
    IN  IF i >= Len(input) THEN [st |-> "ok", out |-> out, locals |-> locals]
        ELSE IF inString THEN
            rewriteLoop(input, i + 1, Append(out, input[i + 1]), inAction,
                        IF input[i + 1] = "\"" /\ At(input, i - 1) # "\\" THEN FALSE ELSE TRUE,
                        inTemplateString, locals)
        ELSE IF inTemplateString THEN
            \* line 156 clears inString, which is already false here
            rewriteLoop(input, i + 1, Append(out, input[i + 1]), inAction, FALSE,
                        inTemplateString, locals)
        ELSE IF At(input, i) = "{" /\ At(input, i + 1) = "{" THEN
            Emit(i + 2, <<"{", "{">>, locals)
        ELSE IF inAction /\ At(input, i) = "}" /\ At(input, i + 1) = "}" THEN
            rewriteLoop(input, i + 2, out \o <<"}", "}">>, FALSE, FALSE, FALSE, locals)
        ELSE IF ~inAction THEN
            rewriteLoop(input, i + 1, Append(out, input[i + 1]), FALSE, FALSE, FALSE, locals)
        ELSE IF input[i + 1] = "$" THEN Dollar(identEnd(input, i + 1))
        ELSE IF input[i + 1] = "." THEN Dot(identEnd(input, i + 1))
        ELSE rewriteLoop(input, i + 1, Append(out, input[i + 1]), TRUE,
                         input[i + 1] = "\"", input[i + 1] = BackQuote, locals)

rewriteTemplateRunes(input) == rewriteLoop(input, 0, <<>>, FALSE, FALSE, FALSE, <<>>)

\* a rewrite that stops at the nodes it is given and leaves their children
rewriteTopOnly(nodes) == [st |-> "ok", nodes |-> nodes, locals |-> <<>>]

RECURSIVE rewriteChildren(_)
\* rewriteChildren: the nodes with every Raw rewritten, and the locals met
rewriteChildren(nodes) ==
    LET Rewritten(node, r, c, rest) ==
            IF r.st # "ok" \/ c.st # "ok" \/ rest.st # "ok"
            THEN [st |-> "panic", nodes |-> <<>>, locals |-> <<>>]
            ELSE [st |-> "ok",
                  nodes |-> <<[node EXCEPT !.Raw = r.out, !.Children = c.nodes]>> \o rest.nodes,
                  locals |-> r.locals \o c.locals \o rest.locals]
    IN  IF nodes = <<>> THEN [st |-> "ok", nodes |-> <<>>, locals |-> <<>>]
        ELSE Rewritten(Head(nodes), rewriteTemplateRunes(Head(nodes).Raw),
                       rewriteChildren(Head(nodes).Children), rewriteChildren(Tail(nodes)))

Quoted(text) == <<"\"">> \o text \o <<"\"">>

\* newDefine: the identifier of the define block of a component node
newDefine(node, rnd, k) == <<"glam__">> \o node.TagName \o <<"__", randomString(rnd, k)>>

RECURSIVE attributesText(_, _, _, _)
\* the loop over node.Attributes (lines 55-67), keys in the order given
attributesText(attrs, keys, subdefine, acc) ==
    LET Pair(k, value) ==
            attributesText(attrs, Tail(keys), subdefine,
                           acc \o <<" ">> \o Quoted(k) \o <<" ">> \o value)
        Rewritten(k, s) ==
            IF s.st # "ok" THEN [st |-> "panic", text |-> acc]
            ELSE Pair(k, <<"(">> \o Trim(s.out, {"{", "}"}) \o <<")">>)
        Attribute(k, v) ==
            IF ~HasActionPrefix(v) THEN Pair(k, Quoted(v))
            ELSE IF ~subdefine THEN Pair(k, <<"(">> \o Trim(v, {"{", "}", " "}) \o <<")">>)
            ELSE Rewritten(k, rewriteTemplateRunes(v))
    IN  IF keys = <<>> THEN [st |-> "ok", text |-> acc]
        ELSE Attribute(Head(keys), attrs[Head(keys)])

RECURSIVE localsText(_)
\* the loop over locals (lines 83-85)
localsText(locals) ==
    IF locals = <<>> THEN <<>>
    ELSE Quoted(Head(locals)) \o <<" ", "$">> \o Head(locals) \o <<" ">>
         \o localsText(Tail(locals))

\* the carrier built at top level (lines 79-86)
carrierText(locals) ==
    <<"(", "__glamDict", " ">> \o Quoted(<<dotPrefix>>) \o <<" ", ".", " ">>
    \o Quoted(<<rootPrefix>>) \o <<" ", "$", " ">>
    \o Quoted(<<localsPrefix>>) \o <<" ", "(", "__glamDict", " ">>
    \o localsText(locals) \o <<")", ")">>

\* the callout of line 93
calloutText(tagName, identifier, attributes, defineArgs) ==
    <<"{", "{", "__glamRenderComponent", " ">> \o Quoted(tagName) \o <<" ">>
    \o Quoted(identifier) \o <<" ">> \o attributes \o <<" ">> \o defineArgs \o <<"}", "}">>

\* the callout of line 95, for a component node without children
emptyCalloutText(tagName) ==
    <<"{", "{", "__glamRenderComponent", " ">> \o Quoted(tagName) \o <<" ">>
    \o Quoted(<<>>) \o <<" ", "nil", " ", ".", "}", "}">>

\* a define block that is never closed
defineTextUnclosed(identifier, content) ==
    <<"{", "{", "define", " ">> \o <<"\"">> \o identifier \o <<"\"", "}", "}">> \o content

\* the define block of line 107
defineText(identifier, content) ==
    <<"{", "{", "define", " ">> \o Quoted(identifier) \o <<"}", "}">> \o content
    \o <<"{", "{", "end", "}", "}">>

PutRef(refs, identifier, node) ==
    [x \in DOMAIN refs \cup {identifier} |-> IF x = identifier THEN node ELSE refs[x]]

RECURSIVE rawCompileNodes(_, _, _, _, _, _, _)
\* the loop over nodes (lines 43-97): the text written so far, the define
\* references collected so far and the number k of identifiers drawn
rawCompileNodes(nodes, subdefine, rnd, ord, k, acc, refs) ==
    LET Fail == [st |-> "panic", text |-> acc, refs |-> refs, k |-> k]
        Written(text) == rawCompileNodes(Tail(nodes), subdefine, rnd, ord, k, acc \o text, refs)
        \* lines 69-93: the reference is stored, the callout is written
        Called(node, identifier, attributes, defineArgs, ref) ==
            rawCompileNodes(Tail(nodes), subdefine, rnd, ord, k + 1,
                            acc \o calloutText(node.TagName, identifier, attributes, defineArgs),
                            PutRef(refs, identifier, ref))
        Rewritten(node, identifier, attributes, rw) ==
            IF rw.st # "ok" THEN Fail
            ELSE Called(node, identifier, attributes, carrierText(rw.locals), rw.nodes[1])
        Attributed(node, identifier, a) ==
            IF a.st # "ok" THEN Fail
            ELSE IF subdefine THEN Called(node, identifier, a.text \o <<")">>, <<".">>, node)
            ELSE Rewritten(node, identifier, a.text \o <<")">>, rewriteChildren(<<node>>))
        Node(node) ==
            IF node.Type = NodeTypeRaw THEN Written(node.Raw)
            ELSE IF Len(node.Children) = 0 THEN Written(emptyCalloutText(node.TagName))
            ELSE Attributed(node, newDefine(node, rnd, k),
                            attributesText(node.Attributes,
                                           RangeOrder(DOMAIN node.Attributes, ord),
                                           subdefine, <<"(", "__glamDict">>))
    IN  IF nodes = <<>> THEN [st |-> "ok", text |-> acc, refs |-> refs, k |-> k]
        ELSE Node(Head(nodes))

RECURSIVE rawCompile(_, _, _, _, _)
RECURSIVE rawCompileDefines(_, _, _, _, _, _)

\* the loop over defineReferences (lines 102-110), identifiers in the order given
rawCompileDefines(refs, ids, rnd, ord, k, acc) ==
    LET Compiled(c) ==
            IF c.st # "ok" THEN [st |-> "panic", defines |-> acc, k |-> k]
            ELSE rawCompileDefines(refs, Tail(ids), rnd, ord, c.k,
                                   acc \o c.defines \o <<defineText(Head(ids), c.primary)>>)
    IN  IF ids = <<>> THEN [st |-> "ok", defines |-> acc, k |-> k]
        ELSE Compiled(rawCompile(refs[Head(ids)].Children, TRUE, rnd, ord, k))

rawCompile(nodes, subdefine, rnd, ord, k) ==
    LET Fail == [st |-> "panic", primary |-> <<>>, defines |-> <<>>, k |-> k]
        Defined(n, d) ==
            IF d.st # "ok" THEN Fail
            ELSE [st |-> "ok", primary |-> n.text, defines |-> d.defines, k |-> d.k]
        Primary(n) ==
            IF n.st # "ok" THEN Fail
            ELSE Defined(n, rawCompileDefines(n.refs, RangeOrder(DOMAIN n.refs, ord),
                                              rnd, ord, n.k, <<>>))
    IN  Primary(rawCompileNodes(nodes, subdefine, rnd, ord, k, <<>>,
                                [x \in {} |-> RawNode(<<>>)]))

\* compile: the primary content followed by the define blocks
compile(nodes, rnd, ord) ==
    LET Joined(c) == [st |-> c.st, content |-> c.primary \o Concat(c.defines)]
    IN  Joined(rawCompile(nodes, FALSE, rnd, ord, 0))

(***************************************************************************)
(* The host template engine (html/template), as far as the lowered text    *)
(* uses it: text, {{define}} blocks, {{range}}, and output actions made of *)
(* fields, variables, string literals, nil, parentheses and function       *)
(* calls.  Parse rejects anything else.                                    *)
(***************************************************************************)
\* the first index at or after i (1-based) of the closing quote of a string
RECURSIVE stringEnd(_, _)
stringEnd(b, i) ==
    IF i > Len(b) THEN 0 ELSE IF b[i] = "\"" THEN i ELSE stringEnd(b, i + 1)

RECURSIVE pathFrom(_, _, _)
\* the chain of .name selectors that starts at index i (1-based)
pathFrom(b, i, path) ==
    IF i < Len(b) /\ b[i] = "." /\ isIdentRune(b[i + 1], 0)
    THEN LET j == identEnd(b, i)
         IN  pathFrom(b, j + 1, Append(path, SubSeq(b, i + 1, j)))
    ELSE [path |-> path, next |-> i]

RECURSIVE tokens(_, _, _)
\* the lexer inside an action
tokens(b, i, toks) ==
    LET Push(j, tok) == tokens(b, j, Append(toks, tok))
        String(j) ==
            IF j = 0 THEN [ok |-> FALSE, toks |-> toks]
            ELSE Push(j + 1, [t |-> "str", v |-> SubSeq(b, i + 1, j - 1)])
        Selector(pth) ==
            IF pth.path = <<>> THEN Push(i + 1, [t |-> "field", path |-> <<>>])
            ELSE Push(pth.next, [t |-> "field", path |-> pth.path])
        Selected(j, pth) ==
            Push(pth.next, [t |-> "var", name |-> SubSeq(b, i + 1, j), path |-> pth.path])
        Variable(j) == Selected(j, pathFrom(b, j + 1, <<>>))
        Identifier(j) == Push(j + 1, [t |-> "id", name |-> SubSeq(b, i, j)])
    IN  IF i > Len(b) THEN [ok |-> TRUE, toks |-> toks]
        ELSE IF IsSpace(b[i]) THEN tokens(b, i + 1, toks)
        ELSE IF b[i] = "\"" THEN String(stringEnd(b, i + 1))
        ELSE IF b[i] \in {"(", ")", ",", "|"} THEN Push(i + 1, [t |-> b[i]])
        ELSE IF b[i] = ":" /\ i < Len(b) /\ b[i + 1] = "=" THEN Push(i + 2, [t |-> ":="])
        ELSE IF b[i] = "." THEN Selector(pathFrom(b, i, <<>>))
        ELSE IF b[i] = "$" THEN Variable(identEnd(b, i))
        ELSE IF isIdentRune(b[i], 0) THEN Identifier(identEnd(b, i - 1))
        ELSE [ok |-> FALSE, toks |-> toks]

\* the functions the engine hands to the host: its own two and the FuncMap
\* given to New, here one function that panics when called
PanicFunc == <<"Panic">>
DictFunc == <<"__glamDict">>
RenderFunc == <<"__glamRenderComponent">>
Funcs == {DictFunc, RenderFunc, PanicFunc}

ExprFail == [ok |-> FALSE, e |-> [e |-> "nil"], next |-> 0]

RECURSIVE parseCommand(_, _, _)
RECURSIVE parseOperands(_, _, _, _)

\* the operands of a command up to a closing parenthesis or the end
parseOperands(toks, i, scope, acc) ==
    LET Fail == [ok |-> FALSE, ops |-> acc, next |-> i]
        Operand(e) == parseOperands(toks, i + 1, scope, Append(acc, e))
        Nested(c) ==
            IF ~c.ok \/ c.next > Len(toks) THEN Fail
            ELSE parseOperands(toks, c.next + 1, scope, Append(acc, c.e))
        Token(tk) ==
            CASE tk.t = "str" -> Operand([e |-> "str", v |-> tk.v])
              [] tk.t = "field" -> Operand([e |-> "field", path |-> tk.path])
              [] tk.t = "var" ->
                   IF tk.name # <<>> /\ tk.name \notin scope THEN Fail
                   ELSE Operand([e |-> "var", name |-> tk.name, path |-> tk.path])
              [] tk.t = "id" ->
                   IF tk.name = <<"nil">> THEN Operand([e |-> "nil"])
                   ELSE IF tk.name \in Funcs
                   THEN Operand([e |-> "call", f |-> tk.name, args |-> <<>>])
                   ELSE Fail
              [] tk.t = "(" -> Nested(parseCommand(toks, i + 1, scope))
              [] OTHER -> Fail
    IN  IF i > Len(toks) \/ toks[i].t = ")" THEN [ok |-> TRUE, ops |-> acc, next |-> i]
        ELSE Token(toks[i])

\* one command: a function applied to operands, or a single operand
parseCommand(toks, i, scope) ==
    LET Operands(o) ==
            IF ~o.ok \/ o.ops = <<>> THEN ExprFail
            ELSE IF o.ops[1].e = "call" /\ toks[i].t = "id"
            THEN [ok |-> TRUE, e |-> [e |-> "call", f |-> o.ops[1].f, args |-> Tail(o.ops)],
                  next |-> o.next]
            ELSE IF Len(o.ops) > 1 \/ o.ops[1].e = "nil" THEN ExprFail
            ELSE [ok |-> TRUE, e |-> o.ops[1], next |-> o.next]
    IN  Operands(parseOperands(toks, i, scope, <<>>))

\* a whole pipeline of one command, as an output action holds it
parsePipeline(toks, i, scope) ==
    LET Whole(c) == IF c.ok /\ c.next = Len(toks) + 1 THEN c ELSE ExprFail
    IN  Whole(parseCommand(toks, i, scope))

RECURSIVE actionEnd(_, _, _)
\* the index (1-based) of the }} that closes an action, 0 when there is none
actionEnd(c, k, inString) ==
    IF k >= Len(c) THEN 0
    ELSE IF inString THEN actionEnd(c, k + 1, c[k] # "\"")
    ELSE IF c[k] = "\"" THEN actionEnd(c, k + 1, TRUE)
    ELSE IF c[k] = "}" /\ c[k + 1] = "}" THEN k
    ELSE actionEnd(c, k + 1, FALSE)

RECURSIVE lexItems(_, _, _)
\* the text and action items of a template
lexItems(c, i, items) ==
    LET Text(from, to) ==
            IF from <= to THEN Append(items, [i |-> "text", v |-> SubSeq(c, from, to)])
            ELSE items
        Lexed(j, k, t) ==
            IF ~t.ok \/ t.toks = <<>> THEN [ok |-> FALSE, items |-> items]
            ELSE lexItems(c, k + 2, Append(Text(i, j - 1), [i |-> "action", toks |-> t.toks]))
        Closed(j, k) ==
            IF k = 0 THEN [ok |-> FALSE, items |-> items]
            ELSE Lexed(j, k, tokens(SubSeq(c, j + 2, k - 1), 1, <<>>))
        Opened(j) == Closed(j, actionEnd(c, j + 2, FALSE))
        Actions(opens) ==
            IF opens = {} THEN [ok |-> TRUE, items |-> Text(i, Len(c))]
            ELSE Opened(Min(opens))
    IN  Actions({j \in i .. (Len(c) - 1) : c[j] = "{" /\ c[j + 1] = "{"})

IsKeyword(item, word) ==
    item.i = "action" /\ item.toks[1].t = "id" /\ item.toks[1].name = <<word>>

ListFailH == [ok |-> FALSE, nodes |-> <<>>, next |-> 0, ended |-> FALSE]

\* the variables a range action declares and the index of its pipeline
rangeHeader(toks) ==
    IF Len(toks) >= 6 /\ toks[2].t = "var" /\ toks[3].t = "," /\ toks[4].t = "var"
       /\ toks[5].t = ":="
    THEN [vars |-> <<toks[2].name, toks[4].name>>, at |-> 6]
    ELSE IF Len(toks) >= 4 /\ toks[2].t = "var" /\ toks[3].t = ":="
    THEN [vars |-> <<toks[2].name>>, at |-> 4]
    ELSE [vars |-> <<>>, at |-> 2]

RECURSIVE parseList(_, _, _, _, _)
\* the nodes from item i up to the matching {{end}}, the end of the items
\* or, at the top level, the next {{define}}
parseList(items, i, scope, top, acc) ==
    LET Node(j, n) == parseList(items, j, scope, top, Append(acc, n))
        Ranged(h, re, body) ==
            IF ~re.ok \/ ~body.ok \/ ~body.ended THEN ListFailH
            ELSE Node(body.next,
                      [n |-> "range", vars |-> h.vars, e |-> re.e, body |-> body.nodes])
        Range(it, h) ==
            Ranged(h, parsePipeline(it.toks, h.at, scope),
                   parseList(items, i + 1, scope \cup {h.vars[n] : n \in 1 .. Len(h.vars)},
                             FALSE, <<>>))
        Output(out) ==
            IF ~out.ok THEN ListFailH ELSE Node(i + 1, [n |-> "out", e |-> out.e])
        Item(it) ==
            IF it.i = "text" THEN Node(i + 1, [n |-> "text", v |-> it.v])
            ELSE IF IsKeyword(it, "end")
            THEN IF Len(it.toks) = 1
                 THEN [ok |-> TRUE, nodes |-> acc, next |-> i + 1, ended |-> TRUE]
                 ELSE ListFailH
            ELSE IF IsKeyword(it, "define")
            THEN IF top THEN [ok |-> TRUE, nodes |-> acc, next |-> i, ended |-> FALSE]
                 ELSE ListFailH
            ELSE IF IsKeyword(it, "range") THEN Range(it, rangeHeader(it.toks))
            ELSE Output(parsePipeline(it.toks, 1, scope))
    IN  IF i > Len(items) THEN [ok |-> TRUE, nodes |-> acc, next |-> i, ended |-> FALSE]
        ELSE Item(items[i])

\* parse.IsEmptyTree: nothing but white space
IsEmptyTree(nodes) ==
    \A n \in 1 .. Len(nodes) :
        nodes[n].n = "text" /\ \A m \in 1 .. Len(nodes[n].v) : IsSpace(nodes[n].v[m])

NoDefs == [x \in {} |-> <<>>]

RECURSIVE parseTop(_, _, _, _)
\* the top level of a template: its own nodes and its {{define}} blocks
parseTop(items, i, main, defs) ==
    LET Fail == [ok |-> FALSE, main |-> main, defs |-> defs]
        \* the nodes up to the next {{define}}, or the body of the one at i
        Listed(define, toks, l) ==
            IF ~define
            THEN IF ~l.ok \/ l.ended THEN Fail
                 ELSE parseTop(items, l.next, main \o l.nodes, defs)
            ELSE IF Len(toks) # 2 \/ toks[2].t # "str" THEN Fail
            ELSE IF ~l.ok \/ ~l.ended THEN Fail
            ELSE IF toks[2].v \in DOMAIN defs /\ ~IsEmptyTree(defs[toks[2].v])
                    /\ ~IsEmptyTree(l.nodes)
            THEN Fail
            ELSE parseTop(items, l.next, main,
                          IF toks[2].v \in DOMAIN defs /\ IsEmptyTree(l.nodes) THEN defs
                          ELSE [x \in DOMAIN defs \cup {toks[2].v} |->
                                   IF x = toks[2].v THEN l.nodes ELSE defs[x]])
        Top(define) ==
            Listed(define, items[i].toks,
                   parseList(items, IF define THEN i + 1 ELSE i, {}, ~define, <<>>))
    IN  IF i > Len(items) THEN [ok |-> TRUE, main |-> main, defs |-> defs]
        ELSE Top(IsKeyword(items[i], "define"))

\* Template.Parse of the host engine
HostParse(content) ==
    LET Lexed(l) ==
            IF ~l.ok THEN [ok |-> FALSE, main |-> <<>>, defs |-> NoDefs]
            ELSE parseTop(l.items, 1, <<>>, NoDefs)
    IN  Lexed(lexItems(content, 1, <<>>))

(***************************************************************************)
(* Values of the host language.  k is the Go kind: "s" a string (html set  *)
(* for template.HTML), "l" a slice, "m" a map[string]any, "o" a struct or  *)
(* a pointer to one, "i" an int, "nil" the untyped nil.                    *)
(***************************************************************************)
StringValue(text) == [k |-> "s", v |-> text, html |-> FALSE]
HTMLValue(text) == [k |-> "s", v |-> text, html |-> TRUE]
ListValue(elems) == [k |-> "l", v |-> elems]
MapValue(f) == [k |-> "m", v |-> f]
IntValue(n) == [k |-> "i", v |-> n]
NilValue == [k |-> "nil"]
\* a value of struct type ty (a type description), or a pointer to one
StructValue(ty, isPointer, fields) == [k |-> "o", ty |-> ty, ptr |-> isPointer, v |-> fields]

\* the zero value of a field kind
ZeroValue(kind) ==
    CASE kind = "string" -> StringValue(<<>>)
      [] kind = "HTML" -> HTMLValue(<<>>)
      [] OTHER -> ListValue(<<>>)

\* reflect's assignability of a value to a field of a kind
Assignable(value, kind) ==
    CASE kind = "string" -> value.k = "s" /\ ~value.html
      [] kind = "HTML" -> value.k = "s" /\ value.html
      [] OTHER -> value.k = "l"

\* the escaping html/template applies to a plain string in element content
EscapeRune(r) ==
    CASE r = "<" -> "&lt;"
      [] r = ">" -> "&gt;"
      [] r = "&" -> "&amp;"
      [] r = "\"" -> "&#34;"
      [] r = "'" -> "&#39;"
      [] OTHER -> r

\* what an output action writes for a value
PrintValue(value) ==
    CASE value.k = "s" ->
            IF value.html THEN value.v ELSE [n \in 1 .. Len(value.v) |-> EscapeRune(value.v[n])]
      [] value.k = "i" -> <<ToString(value.v)>>
      [] value.k = "nil" -> <<"<no value>">>
      [] OTHER -> <<"<value>">>

ValFail(st) == [st |-> st, v |-> NilValue]

RECURSIVE walk(_, _)
\* the chain of field selectors path applied to a value
walk(value, path) ==
    IF path = <<>> THEN [st |-> "ok", v |-> value]
    ELSE IF value.k = "o"
    THEN IF Head(path) \in DOMAIN value.v THEN walk(value.v[Head(path)], Tail(path))
         ELSE ValFail("error")
    ELSE IF value.k = "m"
    THEN IF Head(path) \in DOMAIN value.v THEN walk(value.v[Head(path)], Tail(path))
         ELSE IF Len(path) = 1 THEN [st |-> "ok", v |-> NilValue] ELSE ValFail("error")
    ELSE ValFail("error")

RECURSIVE dictOf(_, _, _)
\* Dict (compiler.go 410-422): panics on an odd number of arguments or a key
\* that is not a string
dictOf(args, n, acc) ==
    IF n > Len(args) THEN [st |-> "ok", v |-> MapValue(acc)]
    ELSE IF args[n].k # "s" \/ args[n].html THEN ValFail("panic")
    ELSE dictOf(args, n + 2,
                [x \in DOMAIN acc \cup {args[n].v} |->
                    IF x = args[n].v THEN args[n + 1] ELSE acc[x]])

Dict(args) ==
    IF Len(args) % 2 # 0 THEN ValFail("panic") ELSE dictOf(args, 1, [x \in {} |-> NilValue])

\* the variables of a fresh execution: $ is the data
RootVars(data) == [x \in {<<>>} |-> data]

BindVars(vars, names, index, elem) ==
    [x \in DOMAIN vars \cup {names[n] : n \in 1 .. Len(names)} |->
        IF Len(names) = 2 /\ x = names[2] THEN elem
        ELSE IF Len(names) = 2 /\ x = names[1] THEN IntValue(index)
        ELSE IF Len(names) = 1 /\ x = names[1] THEN elem
        ELSE vars[x]]

\* settable by reflection: an exported field
CanSet(fieldName) == fieldName # <<>> /\ IsUpper(fieldName[1])

Worse(a, b) == IF a # "ok" THEN a ELSE b

RECURSIVE hostExec(_, _, _, _, _, _)
RECURSIVE execRange(_, _, _, _, _, _, _, _)
RECURSIVE eval(_, _, _, _, _, _)
RECURSIVE evalArgs(_, _, _, _, _, _, _)
RECURSIVE generateRenderFunc(_, _, _, _, _, _, _)
RECURSIVE setFields(_, _, _, _, _, _, _, _, _)
RECURSIVE Execute(_, _, _, _)
RECURSIVE RenderWithFuncs(_, _, _)

\* executing a list of nodes: what is written, and how the execution ended
\* ("ok", "error", "panic", or "fatal" when the Go stack is exhausted)
hostExec(nodes, dot, vars, t, e, d) ==
    LET Then(first, rest) ==
            IF first.st # "ok" THEN first
            ELSE [st |-> rest.st, out |-> first.out \o rest.out]
        Evaluated(node, r) ==
            IF r.st # "ok" THEN [st |-> r.st, out |-> <<>>]
            ELSE IF node.n = "out" THEN [st |-> "ok", out |-> PrintValue(r.v)]
            ELSE IF r.v.k = "nil" THEN [st |-> "ok", out |-> <<>>]
            ELSE IF r.v.k # "l" THEN [st |-> "error", out |-> <<>>]
            ELSE execRange(node, r.v.v, 1, vars, t, e, d, <<>>)
        First(node) ==
            IF node.n = "text" THEN [st |-> "ok", out |-> node.v]
            ELSE Evaluated(node, eval(node.e, dot, vars, t, e, d))
    IN  IF nodes = <<>> THEN [st |-> "ok", out |-> <<>>]
        ELSE Then(First(Head(nodes)), hostExec(Tail(nodes), dot, vars, t, e, d))

\* the iterations of a range action from element n on
execRange(node, elems, n, vars, t, e, d, acc) ==
    LET Iterated(r) ==
            IF r.st # "ok" THEN [st |-> r.st, out |-> acc \o r.out]
            ELSE execRange(node, elems, n + 1, vars, t, e, d, acc \o r.out)
    IN  IF n > Len(elems) THEN [st |-> "ok", out |-> acc]
        ELSE Iterated(hostExec(node.body, elems[n],
                               BindVars(vars, node.vars, n - 1, elems[n]), t, e, d))

evalArgs(args, dot, vars, t, e, d, acc) ==
    LET Evaluated(r) ==
            IF r.st # "ok" THEN [st |-> r.st, v |-> acc]
            ELSE evalArgs(Tail(args), dot, vars, t, e, d, Append(acc, r.v))
    IN  IF args = <<>> THEN [st |-> "ok", v |-> acc]
        ELSE Evaluated(eval(Head(args), dot, vars, t, e, d))

eval(expr, dot, vars, t, e, d) ==
    LET Call(a) ==
            IF a.st # "ok" THEN ValFail(a.st)
            ELSE IF expr.f = PanicFunc THEN ValFail("panic")
            ELSE IF expr.f = DictFunc THEN Dict(a.v)
            ELSE IF Len(a.v) # 4 \/ a.v[1].k # "s" \/ a.v[2].k # "s"
                    \/ a.v[3].k \notin {"m", "nil"}
            THEN ValFail("error")
            ELSE generateRenderFunc(t, e, a.v[1].v, a.v[2].v, a.v[3], a.v[4], d)
    IN  CASE expr.e = "str" -> [st |-> "ok", v |-> StringValue(expr.v)]
          [] expr.e = "nil" -> [st |-> "ok", v |-> NilValue]
          [] expr.e = "field" ->
                IF expr.path # <<>> /\ dot.k = "nil" THEN ValFail("error")
                ELSE walk(dot, expr.path)
          [] expr.e = "var" -> walk(vars[expr.name], expr.path)
          [] OTHER -> Call(evalArgs(expr.args, dot, vars, t, e, d, <<>>))

\* the loop over the fields of the component (engine.go 188-209)
setFields(t, e, fields, n, identifier, attributes, existingData, d, acc) ==
    LET Continue(next) ==
            setFields(t, e, fields, n + 1, identifier, attributes, existingData, d, next)
        \* lines 195-203: the define block of the children is executed
        Children(f, c) ==
            IF c.st = "fatal" THEN [st |-> "fatal", v |-> acc]
            ELSE IF c.st # "ok" \/ ~Assignable(HTMLValue(c.out), f.kind)
            THEN [st |-> "panic", v |-> acc]
            ELSE Continue([acc EXCEPT ![f.name] = HTMLValue(c.out)])
        SetField(f) ==
            IF ~CanSet(f.name) THEN Continue(acc)
            ELSE IF f.name = <<"Children">>
            THEN IF identifier \notin DOMAIN t.tree.defs THEN [st |-> "panic", v |-> acc]
                 ELSE Children(f, hostExec(t.tree.defs[identifier], existingData,
                                           RootVars(existingData), t, e, d))
            ELSE IF attributes.k = "m" /\ f.name \in DOMAIN attributes.v
            THEN IF ~Assignable(attributes.v[f.name], f.kind) THEN [st |-> "panic", v |-> acc]
                 ELSE Continue([acc EXCEPT ![f.name] = attributes.v[f.name]])
            ELSE Continue(acc)
    IN  IF n > Len(fields) THEN [st |-> "ok", v |-> acc] ELSE SetField(fields[n])

\* the function bound to __glamRenderComponent for template t (engine.go 166-219)
generateRenderFunc(t, e, name, identifier, attributes, existingData, d) ==
    LET Rendered(r) ==
            IF r.st = "fatal" THEN ValFail("fatal")
            ELSE IF r.st # "ok" THEN ValFail("panic")
            ELSE [st |-> "ok", v |-> HTMLValue(r.out)]
        Set(ty, set) ==
            IF set.st # "ok" THEN ValFail(set.st)
            ELSE Rendered(RenderWithFuncs(e, StructValue(ty, TRUE, set.v), d + 1))
        Made(ty, zero) ==
            Set(ty, setFields(t, e, ty.fields, 1, identifier, attributes, existingData, d, zero))
        Component(componentType) ==
            IF componentType.kind \notin {"ptr", "struct"} THEN ValFail("panic")
            \* without the pointer, Field is called on the pointer reflect.New made
            ELSE IF componentType.kind # "ptr" /\ Len(componentType.elem.fields) > 0
            THEN ValFail("panic")
            ELSE Made(componentType.elem,
                     [x \in {componentType.elem.fields[n].name :
                                n \in 1 .. Len(componentType.elem.fields)} |->
                        ZeroValue(componentType.elem.fields[
                                      CHOOSE n \in 1 .. Len(componentType.elem.fields) :
                                          componentType.elem.fields[n].name = x].kind)])
    IN  IF name \notin DOMAIN e.components THEN ValFail("panic")
        ELSE Component(e.components[name])

\* v.Type().Name() without following the pointer: a pointer type has no name
TypeNameOfPointer(value) ==
    IF value.k = "o" /\ ~value.ptr THEN value.ty.name ELSE <<>>

\* v.Type().Name() after one pointer is followed
TypeName(value) == IF value.k = "o" THEN value.ty.name ELSE <<"string">>

\* Template.Execute: the host's Execute under the Recover hook
Execute(t, renderable, e, d) ==
    LET Recovered(r) ==
            IF r.st = "panic" /\ renderable.k = "o" /\ renderable.ptr
               /\ renderable.ty.recover
            THEN [st |-> "ok", out |-> renderable.ty.fallback]
            ELSE r
    IN  Recovered(hostExec(t.tree.main, renderable, RootVars(renderable), t, e, d))

\* RenderWithFuncs (compiler.go 304-322): err names the type when no
\* template is registered for it
RenderWithFuncs(e, renderable, d) ==
    LET Executed(r) ==
            IF r.st = "error"
            THEN [st |-> "error", out |-> r.out, err |-> <<"error rendering component">>]
            ELSE [st |-> r.st, out |-> r.out, err |-> <<>>]
        Named(name) ==
            IF name \in DOMAIN e.templateMap
            THEN Executed(Execute(e.templateMap[name], renderable, e, d))
            ELSE [st |-> "error", out |-> <<>>,
                  err |-> <<"No component found for type ">> \o name]
    IN  IF d > MaxDepth THEN [st |-> "fatal", out |-> <<>>, err |-> <<>>]
        ELSE Named(TypeName(renderable))

\* Render (compiler.go 300-302)
Render(e, renderable) == RenderWithFuncs(e, renderable, 0)

(***************************************************************************)
(* Templates and the engine.                                               *)
(*                                                                         *)
(* An oracle o holds what the Go runtime decides during one call: o.rnd    *)
(* the values of randomString, o.ord the map iteration order, o.slack the  *)
(* runes of capacity []rune(s) has beyond its length.                      *)
(***************************************************************************)
NoTemplate ==
    [Name |-> <<>>, rawContent |-> <<>>, pos |-> 0, content |-> <<>>,
     tree |-> [ok |-> FALSE, main |-> <<>>, defs |-> NoDefs],
     potentialReferencedComponents |-> {}]

\* a parse that leaves the template as parseRoot left it
parseLeft(t) == t

\* the function parse defers (template.go 37-42): the cursor is reset, and the
\* raw content is dropped when no component is potentially referenced
parseDeferred(t) ==
    [t EXCEPT !.pos = 0,
              !.rawContent = IF t.potentialReferencedComponents = {} THEN <<>> ELSE @]

\* newTemplate followed by parse (template.go 24-58): the template, or how
\* the construction failed
New(name, components, rawTemplate, o) ==
    LET Parsed(p, c, h) ==
            IF ~h.ok THEN [st |-> "error", t |-> NoTemplate]
            ELSE [st |-> "ok",
                  t |-> parseDeferred([Name |-> name,
                                       rawContent |-> rawTemplate,
                                       pos |-> p.pos,
                                       content |-> c.content,
                                       tree |-> h,
                                       potentialReferencedComponents |-> p.pot])]
        Compiled(p, c) ==
            IF c.st # "ok" THEN [st |-> c.st, t |-> NoTemplate]
            ELSE Parsed(p, c, HostParse(c.content))
        Nodes(p) ==
            IF p.st # "ok" THEN [st |-> p.st, t |-> NoTemplate]
            ELSE Compiled(p, compile(p.nodes, o.rnd, o.ord))
    IN  Nodes(parseRoot(rawTemplate, components, Len(rawTemplate) + o.slack))

\* m[k] = v
Put(m, k, v) == [x \in DOMAIN m \cup {k} |-> IF x = k THEN v ELSE m[x]]

\* delete(m, k)
Delete(m, k) == [x \in DOMAIN m \ {k} |-> m[x]]

\* an engine that never defers a template: forward references stay raw markup
deferNothing(recompileMap, keys, t) == recompileMap

RECURSIVE deferTemplate(_, _, _)
\* the loop of parseTemplate lines 395-401, over the keys in the order given
deferTemplate(recompileMap, keys, t) ==
    IF keys = <<>> THEN recompileMap
    ELSE deferTemplate(Put(recompileMap, Head(keys),
                           IF Head(keys) \in DOMAIN recompileMap
                           THEN Append(recompileMap[Head(keys)], t)
                           ELSE <<t>>),
                       Tail(keys), t)

RECURSIVE parseTemplate(_, _, _, _, _)
RECURSIVE recompile(_, _, _, _)

\* the loop of parseTemplate lines 378-383 over the templates deferred on a name
recompile(e, templates, o, d) ==
    LET Recompiled(r) == IF r.st # "ok" THEN r ELSE recompile(r.e, Tail(templates), o, d)
    IN  IF templates = <<>> THEN [st |-> "ok", e |-> e]
        ELSE Recompiled(parseTemplate(e, Head(templates).Name, Head(templates).rawContent,
                                      o, d + 1))

\* Engine.parseTemplate (compiler.go 374-406)
parseTemplate(e, name, templateValue, o, d) ==
    LET \* lines 395-403
        Created(e1, n) ==
            IF n.st # "ok" THEN [st |-> n.st, e |-> e1]
            ELSE [st |-> "ok",
                  e |-> [e1 EXCEPT
                           !.recompileMap =
                               deferTemplate(e1.recompileMap,
                                             RangeOrder(n.t.potentialReferencedComponents,
                                                        o.ord),
                                             n.t),
                           !.templateMap = Put(e1.templateMap, name, n.t)]]
        \* line 388
        Create(e1) == Created(e1, New(name, DOMAIN e1.components, templateValue, o))
        \* lines 378-385
        Recompiled(rc) ==
            IF rc.st # "ok" THEN rc
            ELSE Create([rc.e EXCEPT !.recompileMap = Delete(rc.e.recompileMap, name)])
    IN  IF d > MaxDepth THEN [st |-> "fatal", e |-> e]
        ELSE IF name \in DOMAIN e.recompileMap
        THEN Recompiled(recompile(e, e.recompileMap[name], o, d))
        ELSE Create(e)

ErrNotStruct == <<"provided value must be a struct or a pointer to a struct">>
ErrPrivate(name) ==
    <<"component ">> \o name \o <<" is private, registered components must be public">>
ErrRegister == <<"could not register template">>

\* Engine.RegisterComponent (compiler.go 327-351) for a value of the type
\* description ty: the engine afterwards, how the call ended and its error
RegisterComponent(e, ty, templateString, o) ==
    LET Parsed(r) ==
            IF r.st = "error" THEN [st |-> "error", e |-> r.e, err |-> ErrRegister]
            ELSE [st |-> r.st, e |-> r.e, err |-> <<>>]
        Named(name) ==
            IF name = <<>> THEN [st |-> "panic", e |-> e, err |-> <<>>]
            ELSE IF IsLower(name[1]) THEN [st |-> "error", e |-> e, err |-> ErrPrivate(name)]
            ELSE Parsed(parseTemplate([e EXCEPT !.components = Put(e.components, name, ty)],
                                      name, templateString, o, 0))
    IN  \* r.Elem() panics for a kind that has no element type
        IF ty.kind \notin {"struct", "ptr", "slice"} THEN [st |-> "panic", e |-> e, err |-> <<>>]
        ELSE IF ty.kind = "slice" /\ ty.elem.kind # "struct"
        THEN [st |-> "error", e |-> e, err |-> ErrNotStruct]
        \* a slice type is unnamed, and []rune(name)[0] panics on the empty name
        ELSE IF ty.kind = "slice" THEN [st |-> "panic", e |-> e, err |-> <<>>]
        ELSE Named(ty.elem.name)

(***************************************************************************)
(* The component types, templates and values the engine is driven with.    *)
(***************************************************************************)
Field(name, kind) == [name |-> <<name>>, kind |-> kind]

StructType(name, fields) ==
    [kind |-> "struct", name |-> <<name>>, fields |-> fields, recover |-> FALSE,
     fallback |-> <<>>]

\* a wrapper: type W struct { Children template.HTML; N string }
TypeW == StructType("W", <<Field("Children", "HTML"), Field("N", "string")>>)
\* type Y struct { N string }
TypeY == StructType("Y", <<Field("N", "string")>>)
\* a page: type P struct { N string; L []string }
TypeP == StructType("P", <<Field("N", "string"), Field("L", "list")>>)
\* a type whose pointer has the Recover method, which writes "oh no!"
TypeR == [StructType("R", <<>>) EXCEPT !.recover = TRUE, !.fallback = <<"oh no!">>]
\* the same without the method
TypeQ == StructType("Q", <<>>)
\* a type with a private name, and one named like an HTML tag
TypeLower == StructType("p", <<>>)
TypeTitle == StructType("Title", <<>>)
\* a type that is never registered
TypeU == StructType("U", <<>>)
TypeInt == [kind |-> "int", name |-> <<"int">>, fields |-> <<>>, recover |-> FALSE,
            fallback |-> <<>>]

\* reflect.TypeOf of what RegisterComponent is given
PointerTo(ty) == [kind |-> "ptr", elem |-> ty]
ValueOf(ty) == [kind |-> ty.kind, elem |-> ty]
SliceOf(ty) == [kind |-> "slice", elem |-> ty]

Tag(name) == <<"<", name, ">">>
CloseTag(name) == <<"<", "/", name, ">">>
Action(body) == <<"{", "{">> \o body \o <<"}", "}">>
Attr(name, value) == <<" ", name, "=", "\"">> \o value \o <<"\"">>
OpenTag(name, attrs) == <<"<", name>> \o attrs \o <<">">>

\* <i>{{.N}}</i>
YellTemplate == Tag("i") \o Action(<<".", "N">>) \o CloseTag("i")
\* <d>{{.N}}{{.Children}}</d>
WrapperTemplate ==
    Tag("d") \o Action(<<".", "N">>) \o Action(<<".", "Children">>) \o CloseTag("d")
\* <b><W N="F">a <Y N="G">x</Y>c</W></b>
ChainTemplate ==
    Tag("b") \o OpenTag("W", Attr("N", <<"F">>)) \o <<"a", " ">>
    \o OpenTag("Y", Attr("N", <<"G">>)) \o <<"x">> \o CloseTag("Y") \o <<"c">>
    \o CloseTag("W") \o CloseTag("b")
\* <b>H<Y N="F"></Y></b>
GreetTemplate ==
    Tag("b") \o <<"H">> \o OpenTag("Y", Attr("N", <<"F">>)) \o CloseTag("Y") \o CloseTag("b")
\* <W>Hi</W>
ChildTemplate == Tag("W") \o <<"Hi">> \o CloseTag("W")
\* <W></W>
NoChildTemplate == Tag("W") \o CloseTag("W")
\* {{range $_, $x := .L}}<W>{{$x}}</W>{{end}}
LoopTemplate ==
    Action(<<"range", " ", "$", "_", ",", " ", "$", "x", " ", ":", "=", " ", ".", "L">>)
    \o Tag("W") \o Action(<<"$", "x">>) \o CloseTag("W") \o Action(<<"end">>)
\* the same inside an element: <b>{{range ...}}...{{end}}</b>
LoopInTagTemplate == Tag("b") \o LoopTemplate \o CloseTag("b")
\* <B><Y>x</Y></B>: a component tag right after a capitalised tag
AdjacentTemplate == Tag("B") \o Tag("Y") \o <<"x">> \o CloseTag("Y") \o CloseTag("B")
\* <W>Hi
UnclosedTemplate == Tag("W") \o <<"Hi">>
\* <b>{{.N</b>
RejectedTemplate == Tag("b") \o <<"{", "{", ".", "N">> \o CloseTag("b")
\* H {{Panic}}
PanicTemplate == <<"H", " ">> \o Action(<<"Panic">>)
\* <b>H</b>{{Panic}}<i>
PanicInTagTemplate == Tag("b") \o <<"H">> \o CloseTag("b") \o Action(<<"Panic">>) \o Tag("i")
\* <h1>Hi</h1>, written with the rune d for h1
PlainTemplate == Tag("d") \o <<"Hi">> \o CloseTag("d")

Registration(ty, tmpl) == [ty |-> ty, tmpl |-> tmpl]

\* the values randomString yields within one compilation
RandomStream == <<"r1", "r2", "r3">>

\* what the runtime decides during one call
Oracles ==
    { [rnd |-> RandomStream, ord |-> "fwd", slack |-> 0],
      [rnd |-> RandomStream, ord |-> "rev", slack |-> 1] }

PageFields == [x \in {<<"N">>, <<"L">>} |->
                  IF x = <<"N">> THEN StringValue(<<"F">>)
                  ELSE ListValue(<<StringValue(<<"a">>), StringValue(<<"b">>)>>)]

NoFields == [x \in {} |-> NilValue]

PagePointer == StructValue(TypeP, TRUE, PageFields)
PageValue == StructValue(TypeP, FALSE, PageFields)

\* a program under test: the calls of RegisterComponent it may make and the
\* values it may render
Program(regs, renders) == [regs |-> regs, renders |-> renders]

\* a page over a wrapper over a third component
ChainProgram ==
    Program({ Registration(PointerTo(TypeY), YellTemplate),
              Registration(PointerTo(TypeW), WrapperTemplate),
              Registration(PointerTo(TypeP), ChainTemplate) },
            {PagePointer, PageValue})

\* tags with attributes, with children and without
TagProgram ==
    Program({ Registration(PointerTo(TypeY), YellTemplate),
              Registration(PointerTo(TypeW), WrapperTemplate),
              Registration(PointerTo(TypeP), GreetTemplate),
              Registration(PointerTo(TypeP), ChildTemplate),
              Registration(PointerTo(TypeP), NoChildTemplate),
              Registration(PointerTo(TypeP), AdjacentTemplate) },
            {PagePointer, PageValue})

\* a component rendered once per iteration of a loop
LoopProgram ==
    Program({ Registration(PointerTo(TypeW), WrapperTemplate),
              Registration(PointerTo(TypeP), LoopTemplate),
              Registration(PointerTo(TypeP), LoopInTagTemplate) },
            {PagePointer})

\* registrations that must fail
FailureProgram ==
    Program({ Registration(PointerTo(TypeW), WrapperTemplate),
              Registration(PointerTo(TypeP), UnclosedTemplate),
              Registration(PointerTo(TypeP), RejectedTemplate),
              Registration(ValueOf(TypeLower), PlainTemplate),
              Registration(PointerTo(TypeTitle), PlainTemplate) },
            {PagePointer, StructValue(TypeTitle, TRUE, NoFields)})

\* templates that panic when rendered
PanicProgram ==
    Program({ Registration(PointerTo(TypeR), PanicTemplate),
              Registration(PointerTo(TypeR), PanicInTagTemplate),
              Registration(PointerTo(TypeQ), PanicInTagTemplate) },
            { StructValue(TypeR, TRUE, NoFields), StructValue(TypeQ, TRUE, NoFields) })

\* values that are no pointer to a struct
KindProgram ==
    Program({ Registration(ValueOf(TypeY), YellTemplate),
              Registration(PointerTo(TypeP), GreetTemplate),
              Registration(SliceOf(TypeInt), PlainTemplate),
              Registration(PointerTo(TypeInt), PlainTemplate),
              Registration(ValueOf(TypeInt), PlainTemplate) },
            {PagePointer, StructValue(TypeU, FALSE, NoFields)})

Programs ==
    {ChainProgram, TagProgram, LoopProgram, FailureProgram, PanicProgram, KindProgram}

\* <b a="{x}">: a quoted value with one left curly
LoneCurlyTag == OpenTag("b", Attr("a", <<"{", "x", "}">>))
\* the action {{ G "x" }}, which holds the quote character
QuotingAction == Action(<<" ", "G", " ", "\"", "x", "\"", " ">>)
\* <T a="{{ G "x" }}">: a quoted value that holds the action
QuotingTag == OpenTag("T", Attr("a", QuotingAction))

\* the pieces parser inputs are made of; T is the component the parser may know
Fragments ==
    { <<"x">>, <<" ">>, Tag("b"), CloseTag("b"), Tag("T"), CloseTag("T"),
      <<"<", "T", "/", ">">>, Tag("U"), Tag("B"), LoneCurlyTag, QuotingTag }

\* the references to the scope that an expression of a child may hold:
\* $name, the current item, a field of it
ScopeRefs == { <<"$", "x">>, <<".">>, <<".", "N">> }
\* the root, and a field of it
RootRefs == { <<"$">>, <<"$", ".", "N">> }
\* a field of a field, a field of a variable, a string, a raw string
ChainedRef == <<".", "N", ".", "L">>
VariableFieldRef == <<"$", "x", ".", "N">>
StringRef == <<"\"", "$", "x", " ", ".", "N", "\"">>
RawStringRef == <<BackQuote, "x", BackQuote>>
\* text outside any expression that looks like references
LooseText == <<"$", "x", " ", ".", "N">>

\* the content a component tag may enclose
ChildPieces == { <<"x">> } \cup { Action(r) : r \in ScopeRefs \cup RootRefs }
FlatPieces ==
    ChildPieces \cup { LooseText, Action(ChainedRef), Action(VariableFieldRef),
                       Action(StringRef), Action(RawStringRef) }

\* <T>c1c2</T>
FlatSource(c1, c2) == Tag("T") \o c1 \o c2 \o CloseTag("T")
\* <T>c1 <T a="{{r}}">c2</T></T>: a component with children inside the
\* children of another, as in TestNestedRenderLoop
NestedSource(c1, r, c2) ==
    Tag("T") \o c1 \o <<" ">> \o OpenTag("T", Attr("a", Action(r))) \o c2
    \o CloseTag("T") \o CloseTag("T")
\* <T>c1</T><T>c2</T>
SiblingSource(c1, c2) == FlatSource(c1, <<>>) \o FlatSource(c2, <<>>)
\* <T>c1 <T>c2 <T>c3</T></T></T>
DeepSource(c1, c2, c3) ==
    Tag("T") \o c1 \o <<" ">> \o Tag("T") \o c2 \o <<" ">> \o FlatSource(c3, <<>>)
    \o CloseTag("T") \o CloseTag("T")

\* parser inputs whose components have children to hoist
HoistSources ==
    { FlatSource(c1, c2) : c1, c2 \in FlatPieces }
    \cup { NestedSource(c1, r, c2) : c1, c2 \in ChildPieces, r \in ScopeRefs }
    \cup { SiblingSource(c1, c2) : c1, c2 \in ChildPieces }
    \cup { DeepSource(c1, c2, c3) : c1, c2, c3 \in { <<"x">>, Action(<<"$", "x">>) } }

\* <T a=v>x</T>: a component tag with the attribute a
AttributeSource(v) == OpenTag("T", Attr("a", v)) \o <<"x">> \o CloseTag("T")
\* an expression after text, as in class="btn {{.Class}}"
MixedValue == <<"x">> \o Action(<<".", "N">>)
\* the values of a quoted attribute: text, an expression, an expression
\* with spaces inside its delimiters, an expression after text
AttributeValues ==
    { <<"x">>, Action(<<".", "N">>), Action(<<" ", ".", "N", " ">>), MixedValue }
\* <T a="x" b="{{.N}}">x</T>: a component tag with two attributes
TwoAttributeSource ==
    OpenTag("T", Attr("a", <<"x">>) \o Attr("b", Action(<<".", "N">>))) \o <<"x">>
    \o CloseTag("T")

\* parser inputs whose component tags carry attributes
AttributeSources == { AttributeSource(v) : v \in AttributeValues } \cup { TwoAttributeSource }

\* <U><T>x</T>: the tag of a component right after a capitalised tag that
\* is no component
FollowedTagSource == Tag("U") \o FlatSource(<<"x">>, <<>>)

\* what may follow a bare attribute name before the ">" of the tag
NameEnds == { <<>>, <<" ">>, <<"\t">>, <<"\n">> }
\* <T a>x</T>, with the name followed by sep
BareAttributeSource(sep) ==
    <<"<", "T", " ", "a">> \o sep \o <<">", "x">> \o CloseTag("T")

RECURSIVE Sources(_)
\* the concatenations of at most n fragments
Sources(n) ==
    IF n = 0 THEN {<<>>}
    ELSE LET shorter == Sources(n - 1)
         IN  shorter \cup {s \o f : s \in shorter, f \in Fragments}

KnownSets == {{}, {<<"T">>}}

(***************************************************************************)
(* The state.                                                              *)
(***************************************************************************)
VARIABLES
    program,       \* the program under test
    components,    \* Engine.components: name -> reflect.Type
    templateMap,   \* Engine.templateMap: name -> template
    recompileMap,  \* Engine.recompileMap: name -> templates deferred on it
    last,          \* the last call: what it was given and how it ended
    log,           \* the calls of RegisterComponent so far, with their outcome
    source,        \* a template source given to the parser on its own
    known,         \* the component names the parser is given with it
    stage,         \* how far that source has got: source, parsed, compiled
    parsed,        \* the result of parseRoot on it
    compiled       \* the result of compile on the parsed nodes

engineVars == <<program, components, templateMap, recompileMap, last, log>>
parserVars == <<source, known, stage, parsed, compiled>>
vars == <<engineVars, parserVars>>

Engine == [components |-> components, templateMap |-> templateMap,
           recompileMap |-> recompileMap]

NoMap == [x \in {} |-> NoTemplate]

NotParsed == [st |-> "ok", pos |-> 0, nodes |-> <<>>, pot |-> {}]
NotCompiled == [st |-> "ok", content |-> <<>>]

\* New (compiler.go 280-296)
EngineInit ==
    /\ components = [x \in {} |-> PointerTo(TypeU)]
    /\ templateMap = NoMap
    /\ recompileMap = [x \in {} |-> <<>>]
    /\ last = [op |-> "New", st |-> "ok", err |-> <<>>, out |-> <<>>, arg |-> <<>>]
    /\ log = <<>>

ParserIdle ==
    /\ source = <<>>
    /\ known = {}
    /\ stage = "idle"
    /\ parsed = NotParsed
    /\ compiled = NotCompiled

Init ==
    /\ program \in Programs
    /\ EngineInit
    /\ ParserIdle

\* a call that never returns, or that kills the process, ends the program
Running == last.st \notin {"hang", "fatal"}

\* one call of RegisterComponent
RegisterComponentCall ==
    /\ Running
    /\ Len(log) < MaxRegs
    /\ \E in \in program.regs, o \in Oracles :
          LET Returned(r) ==
                  /\ components' = r.e.components
                  /\ templateMap' = r.e.templateMap
                  /\ recompileMap' = r.e.recompileMap
                  /\ last' = [op |-> "RegisterComponent", st |-> r.st, err |-> r.err,
                              out |-> <<>>, arg |-> in]
                  /\ log' = Append(log, [in |-> in, st |-> r.st])
          IN  Returned(RegisterComponent(Engine, in.ty, in.tmpl, o))
    /\ UNCHANGED <<program, parserVars>>

\* one call of Render
RenderCall ==
    /\ Running
    /\ \E v \in program.renders :
          LET Returned(r) ==
                  last' = [op |-> "Render", st |-> r.st, err |-> r.err, out |-> r.out,
                           arg |-> v]
          IN  Returned(Render(Engine, v))
    /\ UNCHANGED <<program, components, templateMap, recompileMap, log, parserVars>>

Next == RegisterComponentCall \/ RenderCall

\* the engine driven by one of the programs
Spec == Init /\ [][Next]_vars

\* the parser given one source on its own
ParserInit ==
    /\ program = Program({}, {})
    /\ EngineInit
    /\ source \in Sources(MaxFrags) \cup HoistSources \cup AttributeSources
                 \cup { FollowedTagSource }
                 \cup { BareAttributeSource(sep) : sep \in NameEnds }
    /\ known \in KnownSets
    /\ stage = "source"
    /\ parsed = NotParsed
    /\ compiled = NotCompiled

\* parseRoot on the source
ParseStep ==
    /\ stage = "source"
    /\ \E slack \in {0, 1} : parsed' = parseRoot(source, known, Len(source) + slack)
    /\ stage' = "parsed"
    /\ UNCHANGED <<engineVars, source, known, compiled>>

\* compile on the nodes parseRoot returned
CompileStep ==
    /\ stage = "parsed"
    /\ parsed.st = "ok"
    /\ \E ord \in MapOrders : compiled' = compile(parsed.nodes, RandomStream, ord)
    /\ stage' = "compiled"
    /\ UNCHANGED <<engineVars, source, known, parsed>>

ParserNext == ParseStep \/ CompileStep

\* parseRoot and compile applied to every source of the bounded set
SpecParse == ParserInit /\ [][ParserNext]_vars

(***************************************************************************)
(* Properties of the engine.                                               *)
(***************************************************************************)
EmptyEngine ==
    [components |-> [x \in {} |-> PointerTo(TypeU)], templateMap |-> NoMap,
     recompileMap |-> [x \in {} |-> <<>>]]

\* the oracle of a run of the test suite
TestOracle == [rnd |-> RandomStream, ord |-> "fwd", slack |-> 0]

RECURSIVE RegisterAll(_, _)
\* the registrations regs made in order on the engine e
RegisterAll(e, regs) ==
    LET Registered(r) ==
            IF r.st # "ok" THEN [st |-> r.st, e |-> r.e] ELSE RegisterAll(r.e, Tail(regs))
    IN  IF regs = <<>> THEN [st |-> "ok", e |-> e]
        ELSE Registered(RegisterComponent(e, Head(regs).ty, Head(regs).tmpl, TestOracle))

\* every registration so far succeeded
AllRegistered == \A n \in 1 .. Len(log) : log[n].st = "ok"

\* no type was registered twice
DistinctNames ==
    \A m, n \in 1 .. Len(log) :
        m # n => log[m].in.ty.elem.name # log[n].in.ty.elem.name

\* the type ty was registered with the template tmpl, successfully
RegisteredOk(ty, tmpl) ==
    \E n \in 1 .. Len(log) : log[n] = [in |-> Registration(ty, tmpl), st |-> "ok"]

\* the last registration was that of ty with tmpl, and it succeeded
RegisteredLast(ty, tmpl) ==
    Len(log) > 0 /\ log[Len(log)] = [in |-> Registration(ty, tmpl), st |-> "ok"]

\* the same renders come out of both engines
SameRenders(e1, e2) == \A v \in program.renders : Render(e1, v) = Render(e2, v)

\* <b><d>Fa<i>G</i>c</d></b>
ChainOutput ==
    Tag("b") \o Tag("d") \o <<"F", "a">> \o Tag("i") \o <<"G">> \o CloseTag("i") \o <<"c">>
    \o CloseTag("d") \o CloseTag("b")

\* C1: registration order independence.  When every type was registered
\* once and every registration succeeded, the same registrations made in any
\* other order succeed too and give an engine whose renders are identical:
\* a template that referenced components not yet registered renders as if
\* they had been registered first.
C1_OrderIndependence ==
    (AllRegistered /\ DistinctNames) =>
        \A f \in Permutations(1 .. Len(log)) :
            LET Compared(other) == other.st = "ok" /\ SameRenders(other.e, Engine)
            IN  Compared(RegisterAll(EmptyEngine, [n \in 1 .. Len(log) |-> log[f[n]].in]))

\* C1 happens: the page was registered before the wrapper it references and
\* the wrapper before the component it wraps, and the page was then rendered
C1_ReverseRegistered ==
    /\ program = ChainProgram
    /\ log = << [in |-> Registration(PointerTo(TypeP), ChainTemplate), st |-> "ok"],
                [in |-> Registration(PointerTo(TypeW), WrapperTemplate), st |-> "ok"],
                [in |-> Registration(PointerTo(TypeY), YellTemplate), st |-> "ok"] >>
    /\ last.op = "Render"
    /\ last.st = "ok"
    /\ last.out = ChainOutput

\* <b>H<i>F</i></b>
GreetOutput ==
    Tag("b") \o <<"H">> \o Tag("i") \o <<"F">> \o CloseTag("i") \o CloseTag("b")

\* C2: an attribute whose name matches a field of the component is bound to
\* that field whether the tag has child content or none: with Y registered
\* as <i>{{.N}}</i>, the page <b>H<Y N="F"></Y></b> renders <b>H<i>F</i></b>.
C2_AttributeBound ==
    ( /\ last.op = "Render"
      /\ last.arg \in {PagePointer, PageValue}
      /\ RegisteredOk(PointerTo(TypeY), YellTemplate)
      /\ RegisteredLast(PointerTo(TypeP), GreetTemplate) )
    => (last.st = "ok" /\ last.out = GreetOutput)

\* C3: the Children field holds exactly the rendered child content of the
\* tag: <W>Hi</W> renders the wrapper around Hi, and <W></W> renders the
\* wrapper around nothing, without error or panic.
C3_ChildrenBound ==
    \A children \in {<<"Hi">>, <<>>} :
        ( /\ last.op = "Render"
          /\ last.arg \in {PagePointer, PageValue}
          /\ RegisteredOk(PointerTo(TypeW), WrapperTemplate)
          /\ RegisteredLast(PointerTo(TypeP), Tag("W") \o children \o CloseTag("W")) )
        => (last.st = "ok" /\ last.out = Tag("d") \o children \o CloseTag("d"))

\* what the loop over the list of the page writes: <d>a</d><d>b</d>
LoopOutput == Tag("d") \o <<"a">> \o CloseTag("d") \o Tag("d") \o <<"b">> \o CloseTag("d")

\* C4: a loop that renders a component per iteration, with the loop variable
\* in the content of the component, registers, and the i-th instance it
\* renders holds the i-th element.
C4_LoopVariable ==
    ( /\ last.op = "RegisterComponent"
      /\ last.arg = Registration(PointerTo(TypeP), LoopTemplate)
      /\ RegisteredOk(PointerTo(TypeW), WrapperTemplate) )
    => ( /\ last.st = "ok"
         /\ Render(Engine, PagePointer).st = "ok"
         /\ Render(Engine, PagePointer).out = LoopOutput )


\* the source opens no tag of a component the parser knows
ComponentFree ==
    \A n \in 1 .. (Len(source) - 1) : ~(source[n] = "<" /\ <<source[n + 1]>> \in known)

\* C5: identity on component-free templates.  A source that holds no tag of
\* a known component, parsed and compiled, comes out equal to the input,
\* plain text and the text after the last tag included.
C5_IdentityOnComponentFree ==
    (stage = "compiled" /\ ComponentFree) =>
        (compiled.st = "ok" /\ compiled.content = source)

\* <T/> and <T></T>
SelfClosing == <<"<", "T", "/", ">">>
Paired == Tag("T") \o CloseTag("T")

\* C6: a self-closing tag of a known component is parsed as a Component node
\* with zero children, and without attributes it compiles to what the paired
\* form without children compiles to.
C6_SelfClosingComponent ==
    (stage = "compiled" /\ source = SelfClosing /\ known = {<<"T">>}) =>
        /\ parsed.nodes = <<ComponentNode(<<"T">>, NoAttrs, <<>>)>>
        /\ compiled = compile(parseRoot(Paired, known, Len(Paired)).nodes, RandomStream, "fwd")

\* the name of the type a call of RegisterComponent was given
RegisteredName(call) == call.arg.ty.elem.name

\* the registry is what it was before the step
RegistryUnchanged == UNCHANGED <<components, templateMap, recompileMap>>

\* C7: RegisterComponent fails with an error when the name of the type
\* starts with a lower-case letter or is the name of an HTML tag (Title),
\* and the known components, the template map and the deferred table are
\* then what they were before the call.
C7_NameConflictRejected ==
    [][ ( /\ last'.op = "RegisterComponent"
          /\ last'.arg.ty.kind \in {"struct", "ptr"}
          /\ (IsLower(RegisteredName(last')[1]) \/ RegisteredName(last') = <<"Title">>) )
        => (last'.st = "error" /\ RegistryUnchanged) ]_vars

\* C8: a template that fails structurally (an unclosed component tag) or
\* that the host engine rejects makes RegisterComponent return an error, and
\* nothing of the registration remains: the known components, the template
\* map and the deferred table are what they were before the call.
C8_NoPartialRegistration ==
    [][ ( /\ last'.op = "RegisterComponent"
          /\ \/ last'.arg.tmpl = RejectedTemplate
             \/ last'.arg.tmpl = UnclosedTemplate /\ <<"W">> \in DOMAIN components )
        => (last'.st = "error" /\ RegistryUnchanged) ]_vars

\* the same value behind a pointer, or the value a pointer points to
Flipped(value) == [value EXCEPT !.ptr = ~value.ptr]

\* C9: Render of a value, or of a pointer to one, whose type has no
\* registered template returns the error that names the type, writes
\* nothing and leaves the registry unchanged; the value and the pointer to
\* it are looked up under the same name: both fail with that error, or both
\* are rendered with the template of the type and give the same output.
C9_RenderUnregistered ==
    [][ last'.op = "Render" =>
          LET Compared(other) ==
                  IF last'.arg.ty.name \notin DOMAIN templateMap
                  THEN /\ last'.st = "error"
                       /\ last'.err = <<"No component found for type ">> \o last'.arg.ty.name
                       /\ last'.out = <<>>
                       /\ RegistryUnchanged
                       /\ other = [st |-> last'.st, err |-> last'.err, out |-> last'.out]
                  ELSE last'.arg.ty.recover
                       \/ other = [st |-> last'.st, err |-> last'.err, out |-> last'.out]
          IN  Compared(Render(Engine, Flipped(last'.arg))) ]_vars

\* C9 happens: a pointer to a value of an unregistered type was rendered by
\* an engine that holds other registrations
C9_PointerUnregistered ==
    /\ last.op = "Render"
    /\ last.arg.ptr
    /\ last.arg.ty.name \notin DOMAIN templateMap
    /\ DOMAIN templateMap # {}
    /\ last.st = "error"

\* C10: a panic raised while a component renders is swallowed if and only
\* if the type declares the Recover hook: with the hook Render returns no
\* error and the output is what the hook wrote, the text rendered before
\* the panic discarded; without it the panic reaches the caller of Render.
C10_RecoverHook ==
    \A ty \in {TypeR, TypeQ}, tmpl \in {PanicTemplate, PanicInTagTemplate} :
        ( /\ last.op = "Render"
          /\ last.arg = StructValue(ty, TRUE, NoFields)
          /\ RegisteredLast(PointerTo(ty), tmpl) )
        => IF ty.recover THEN last.st = "ok" /\ last.out = ty.fallback
           ELSE last.st = "panic"


\* the name a registration is stored under
NameOf(in) == in.ty.elem.name

\* C11: after a template is parsed its raw source is retained unchanged when
\* its set of potentially referenced components is not empty and is cleared
\* to the empty string exactly when that set is empty; the cursor is back at
\* 0 in both cases.  This holds of the template a successful registration
\* stored and of every template of the template map and the deferred table.
C11_RawContentKept ==
    /\ (last.op = "RegisterComponent" /\ last.st = "ok") =>
           LET Stored(t) ==
                   t.rawContent = IF t.potentialReferencedComponents = {} THEN <<>>
                                  ELSE last.arg.tmpl
           IN  Stored(templateMap[NameOf(last.arg)])
    /\ \A name \in DOMAIN templateMap :
           /\ templateMap[name].pos = 0
           /\ (templateMap[name].rawContent = <<>>)
                  <=> (templateMap[name].potentialReferencedComponents = {})
    /\ \A name \in DOMAIN recompileMap :
           \A n \in 1 .. Len(recompileMap[name]) :
               /\ recompileMap[name][n].pos = 0
               /\ recompileMap[name][n].rawContent # <<>>

\* C11 happens: the page, registered before the components its template
\* names, keeps its source, while the wrapper registered after it, whose
\* template names none, has lost its own
C11_KeptAndCleared ==
    /\ last.op = "RegisterComponent"
    /\ last.st = "ok"
    /\ last.arg = Registration(PointerTo(TypeW), WrapperTemplate)
    /\ <<"P">> \in DOMAIN templateMap
    /\ templateMap[<<"P">>].rawContent = ChainTemplate
    /\ templateMap[<<"P">>].potentialReferencedComponents # {}
    /\ templateMap[<<"W">>].rawContent = <<>>
    /\ WrapperTemplate # <<>>


\* capitalised names that are names of HTML tags when case is ignored
HTMLTagNames == {<<"B">>, <<"Title">>}

\* the capitalised names the source opens a tag with, paired or self-closing
OpenedNames ==
    { <<source[n + 1]>> : n \in {m \in 1 .. (Len(source) - 2) :
                                   /\ source[m] = "<"
                                   /\ IsUpper(source[m + 1])
                                   /\ source[m + 2] \in {">", "/", " "}} }

\* C12: the set of potentially referenced components of a parsed template is
\* exactly the set of capitalised names that open a tag of the source, paired
\* or self-closing, and are neither known components nor names of HTML tags:
\* <B> records nothing, lower-case tags and closing tags add nothing.
C12_DeferredSetExact ==
    (stage = "parsed" /\ parsed.st = "ok") =>
        parsed.pot = (OpenedNames \ known) \ HTMLTagNames


\* the type is a struct type or the type of a pointer to a struct
StructOrPointerToStruct(ty) ==
    ty.kind = "struct" \/ (ty.kind = "ptr" /\ ty.elem.kind = "struct")

\* C13: for every value whose type is neither a struct nor a pointer to a
\* struct, a pointer to a non-struct and a non-pointer non-struct included,
\* RegisterComponent returns the error "provided value must be a struct or a
\* pointer to a struct": it does not panic and the registry is unchanged.
C13_NotStructRejected ==
    [][ (last'.op = "RegisterComponent" /\ ~StructOrPointerToStruct(last'.arg.ty))
        => (last'.st = "error" /\ last'.err = ErrNotStruct /\ RegistryUnchanged) ]_vars


\* C14: parsing terminates for every finite source: parseRoot returns its
\* nodes or fails, and never loops forever; a quoted attribute value with one
\* left curly that no second one follows, <b a="{x}">, is parsed to the end.
C14_ParsingTerminates ==
    stage = "parsed" =>
        /\ parsed.st \in {"ok", "error", "panic"}
        /\ source = LoneCurlyTag => (parsed.st = "ok" /\ parsed.nodes = <<RawNode(source)>>)

\* the index of the rune at which the action of QuotingTag opens: the closing
\* quote and the > of the tag follow the action
QuotingActionStart == Len(QuotingTag) - Len(QuotingAction) - 2

\* C15: a quoted attribute value that holds an action with the quote
\* character inside it, <T a="{{ G "x" }}">, does not end at the inner
\* quote: the value is the whole text between the outer quotes, and once the
\* action is skipped the cursor stands immediately after its closing braces.
C15_QuoteInsideAction ==
    (stage = "parsed" /\ known = {<<"T">>} /\ source = QuotingTag \o CloseTag("T")) =>
        /\ parsed.st = "ok"
        /\ parsed.nodes = <<ComponentNode(<<"T">>, PutAttr(NoAttrs, <<"a">>, QuotingAction), <<>>)>>
        /\ skipGoTemplate(source, QuotingActionStart)
               = [st |-> "ok", pos |-> QuotingActionStart + Len(QuotingAction)]


\* the text opens a tag of the given name
OpensTag(text, name) ==
    \E n \in 1 .. (Len(text) - 1) : text[n] = "<" /\ <<text[n + 1]>> = name

\* the compiled text calls the render function for the given name
CallsOut(content, name) ==
    \E n \in 1 .. (Len(content) - 3) :
        content[n] = RenderFunc[1] /\ <<content[n + 3]>> = name

\* the n-th registration succeeded and no later one of the same type did
Standing(n) ==
    /\ log[n].st = "ok"
    /\ \A m \in (n + 1) .. Len(log) :
           ~(log[m].st = "ok" /\ NameOf(log[m].in) = NameOf(log[n].in))

\* C16: once RegisterComponent of a type A has returned successfully, every
\* template registered before it whose source holds a tag named A is in the
\* template map in a compiled form that calls the component out and holds no
\* raw tag of it, and the deferred table has no entry for A.
C16_RecompiledOnRegister ==
    (last.op = "RegisterComponent" /\ last.st = "ok") =>
        /\ NameOf(last.arg) \notin DOMAIN recompileMap
        /\ \A n \in 1 .. (Len(log) - 1) :
               (Standing(n) /\ OpensTag(log[n].in.tmpl, NameOf(last.arg))) =>
                   /\ NameOf(log[n].in) \in DOMAIN templateMap
                   /\ CallsOut(templateMap[NameOf(log[n].in)].content, NameOf(last.arg))
                   /\ ~OpensTag(templateMap[NameOf(log[n].in)].content, NameOf(last.arg))



RECURSIVE Occurrences(_)
\* the component nodes with children in a tree, at any depth
Occurrences(nodes) ==
    IF nodes = <<>> THEN 0
    ELSE (IF Head(nodes).Type = NodeTypeComponent /\ Len(Head(nodes).Children) > 0
          THEN 1 ELSE 0)
         + Occurrences(Head(nodes).Children) + Occurrences(Tail(nodes))

\* where the define blocks of a compiled text start
DefinePositions(content) ==
    {n \in 1 .. (Len(content) - 4) :
        content[n] = "{" /\ content[n + 1] = "{" /\ content[n + 2] = "define"}

\* the quoted text that starts at the quote at index q
QuotedAt(content, q) ==
    SubSeq(content, q + 1,
           Min({m \in (q + 1) .. Len(content) : content[m] = "\""}) - 1)

\* the identifier of the define block that starts at n
DefineIdentifier(content, n) == QuotedAt(content, n + 4)

CarrierRef(r) ==
    IF r = <<"$", "x">> THEN <<".", localsPrefix, ".", "x">>
    ELSE IF r = <<".">> THEN <<".", dotPrefix>>
    ELSE IF r = <<".", "N">> THEN <<".", dotPrefix, ".", "N">>
    ELSE IF r = <<"$">> THEN <<".", rootPrefix>>
    ELSE IF r = <<"$", ".", "N">> THEN <<".", rootPrefix, ".", "N">>
    ELSE r

\* a piece of child content as it reads once moved into a define block
CarrierPiece(c) ==
    IF HasActionPrefix(c) THEN Action(CarrierRef(SubSeq(c, 3, Len(c) - 2))) ELSE c

\* the identifier of the k-th define block (from 0) of a compilation of T tags
Identifier(k) == <<"glam__", "T", "__", randomString(RandomStream, k)>>

\* the callout of a component inside a define block: the attribute a holds
\* the reference r, the context passed on is the current one
InnerCallout(k, r) ==
    calloutText(<<"T">>, Identifier(k),
                <<"(", "__glamDict", " ", "\"", "a", "\"", " ", "(">> \o CarrierRef(r)
                \o <<")", ")">>,
                <<".">>)

\* the same without attributes
BareInnerCallout(k) == calloutText(<<"T">>, Identifier(k), <<"(", "__glamDict", ")">>, <<".">>)

EndsWith(text, tail) ==
    Len(text) >= Len(tail) /\ SubSeq(text, Len(text) - Len(tail) + 1, Len(text)) = tail

\* two carrier names in a row: a reference rewritten twice
DoubleCarrier(content) ==
    \E n \in 1 .. (Len(content) - 2) :
        /\ content[n] \in {dotPrefix, rootPrefix, localsPrefix}
        /\ content[n + 1] = "."
        /\ content[n + 2] \in {dotPrefix, rootPrefix, localsPrefix}

\* C18: scope references are rewritten exactly once at every depth.  For a
\* component with children that holds a component with children (and that
\* one a third), each $name, . and .Field of the child text and of the
\* attribute expression of the nested component reads in its define block
\* with one carrier prefix, neither doubled nor left as written, and the
\* callouts inside define blocks pass the current context "." on.
C18_RewrittenOnce ==
    (stage = "compiled" /\ known = {<<"T">>}) =>
        /\ \A c1, c2 \in ChildPieces, r \in ScopeRefs :
              source = NestedSource(c1, r, c2) =>
                  /\ compiled.st = "ok"
                  /\ ~DoubleCarrier(compiled.content)
                  /\ EndsWith(compiled.content,
                              defineText(Identifier(1), CarrierPiece(c2))
                              \o defineText(Identifier(0),
                                            CarrierPiece(c1) \o InnerCallout(1, r)))
        /\ \A c1, c2, c3 \in ChildPieces :
              source = DeepSource(c1, c2, c3) =>
                  /\ compiled.st = "ok"
                  /\ ~DoubleCarrier(compiled.content)
                  /\ EndsWith(compiled.content,
                              defineText(Identifier(2), CarrierPiece(c3))
                              \o defineText(Identifier(1),
                                            CarrierPiece(c2) \o BareInnerCallout(2))
                              \o defineText(Identifier(0),
                                            CarrierPiece(c1) \o BareInnerCallout(1)))

\* C18 happens: a loop variable is used in the child text of a component, in
\* the attribute of the component nested in it and in that one's child text
C18_NestedLoopVariable ==
    /\ stage = "compiled"
    /\ known = {<<"T">>}
    /\ source = NestedSource(Action(<<"$", "x">>), <<"$", "x">>, Action(<<"$", "x">>))
    /\ compiled.st = "ok"
    /\ Occurrences(parsed.nodes) = 2


\* where the first define block of a compiled text starts
FirstDefine(content) ==
    IF DefinePositions(content) = {} THEN Len(content) + 1
    ELSE Min(DefinePositions(content))

\* the names passed as locals in the carrier of the callout that precedes
\* the define blocks: each is written "name" $name
LocalsPassed(content) ==
    {content[m + 1] : m \in {n \in 3 .. (FirstDefine(content) - 2) :
                                /\ content[n] = "$"
                                /\ content[n - 1] = " "
                                /\ content[n - 2] = "\""
                                /\ IsLetter(content[n + 1])}}

\* the names looked up in the locals carrier inside the define blocks
LocalsUsed(content) ==
    {content[m + 2] : m \in {n \in FirstDefine(content) .. (Len(content) - 2) :
                                content[n] = localsPrefix /\ content[n + 1] = "."}}

\* C19: in content hoisted into a block, $identifier in an expression reads
\* as a lookup of the identifier in the locals carrier, and the locals the
\* callout of the component passes are exactly the identifiers so rewritten
\* in its children, the attribute expressions of nested components included.
C19_LocalsCaptured ==
    (stage = "compiled" /\ known = {<<"T">>} /\ source \in HoistSources
     /\ Len(parsed.nodes) = 1) =>
        /\ compiled.st = "ok"
        /\ LocalsPassed(compiled.content) = LocalsUsed(compiled.content)
        /\ \A c1, c2 \in ChildPieces :
              source = FlatSource(c1, c2) =>
                  EndsWith(compiled.content,
                           defineText(Identifier(0), CarrierPiece(c1) \o CarrierPiece(c2)))


\* C20: in content hoisted into a block, inside an expression a bare "." reads
\* as the dot carrier, .Field as Field of the dot carrier (and a chain
\* .Field.Field as that chain on the dot carrier), "$" and $.Field as the
\* root carrier and Field of it; text outside expressions and the inside of
\* string and raw string literals are copied unchanged, and the expressions
\* after a literal are rewritten like any other.
C20_DotAndRootCarriers ==
    (stage = "compiled" /\ known = {<<"T">>}) =>
        LET Lowered(c) ==
                IF c = Action(ChainedRef)
                THEN Action(<<".", dotPrefix>> \o ChainedRef)
                ELSE IF c = Action(VariableFieldRef)
                THEN Action(CarrierRef(<<"$", "x">>) \o <<".", "N">>)
                ELSE IF c \in {LooseText, Action(StringRef), Action(RawStringRef)} THEN c
                ELSE CarrierPiece(c)
        IN  \A c1, c2 \in FlatPieces :
                source = FlatSource(c1, c2) =>
                    /\ compiled.st = "ok"
                    /\ EndsWith(compiled.content,
                                defineText(Identifier(0), Lowered(c1) \o Lowered(c2)))


\* the actions that hold nothing but a string literal
LiteralPieces == { Action(StringRef), Action(RawStringRef) }

\* C21: inside an expression a scope reference is rewritten if and only if
\* it lies outside a string literal.  The inside of a double-quoted string
\* and of a raw string is copied as it is, and the $name, $, . and .Field
\* references that come before or after a closed literal read with their
\* carrier in the define block.
C21_LiteralsSkipped ==
    (stage = "compiled" /\ known = {<<"T">>}) =>
        \A lit \in LiteralPieces, c \in ChildPieces :
            /\ source = FlatSource(lit, c) =>
                  /\ compiled.st = "ok"
                  /\ EndsWith(compiled.content,
                              defineText(Identifier(0), lit \o CarrierPiece(c)))
            /\ source = FlatSource(c, lit) =>
                  /\ compiled.st = "ok"
                  /\ EndsWith(compiled.content,
                              defineText(Identifier(0), CarrierPiece(c) \o lit))


\* the value holds the delimiter that opens an expression, anywhere
ContainsOpen(v) == \E n \in 1 .. (Len(v) - 1) : v[n] = "{" /\ v[n + 1] = "{"

StartsWith(text, head) == Len(text) >= Len(head) /\ SubSeq(text, 1, Len(head)) = head

\* the callout of the one component of AttributeSource, its attribute a
\* spliced as given
AttributeCallout(spliced) ==
    calloutText(<<"T">>, Identifier(0),
                <<"(", "__glamDict", " ", "\"", "a", "\"", " ">> \o spliced \o <<")">>,
                carrierText(<<>>))

\* C22: an attribute value is spliced as a live expression, its delimiters
\* stripped and without quotes, if and only if it holds {{ anywhere, and as
\* a quoted string otherwise: a value with {{ after some text is not
\* quoted either.
C22_ExpressionOrLiteral ==
    (stage = "compiled" /\ known = {<<"T">>}) =>
        \A v \in AttributeValues :
            source = AttributeSource(v) =>
                /\ compiled.st = "ok"
                /\ StartsWith(compiled.content, AttributeCallout(Quoted(v)))
                       <=> ~ContainsOpen(v)
                /\ HasActionPrefix(v) =>
                       StartsWith(compiled.content,
                                  AttributeCallout(<<"(", ".", "N", ")">>))


\* <T><b></T>: a tag right after the opening tag of a component
ImmediateTagSource == Tag("T") \o Tag("b") \o CloseTag("T")

\* C23: when a nested tag is met among the children of a component, the
\* pending text is flushed as a Raw child that holds every rune up to the
\* "<" of the nested tag, none dropped and none twice, and a nested tag that
\* follows the opening ">" at once is parsed without failure.
C23_PendingTextFlushed ==
    (stage = "parsed" /\ known = {<<"T">>}) =>
        /\ \A c1, c2 \in ChildPieces, r \in ScopeRefs :
              source = NestedSource(c1, r, c2) =>
                  /\ parsed.st = "ok"
                  /\ parsed.nodes =
                        <<ComponentNode(<<"T">>, NoAttrs,
                             <<RawNode(c1 \o <<" ">>),
                               ComponentNode(<<"T">>,
                                             PutAttr(NoAttrs, <<"a">>, Action(r)),
                                             <<RawNode(c2)>>)>>)>>
        /\ source = ImmediateTagSource => parsed.st = "ok"


\* C24: for an open tag with a capitalised name that is no known component
\* the tag parser returns a Raw node that spans the tag from its "<" to its
\* ">" and leaves the cursor right after that ">", never past the end of the
\* input, so that a tag that follows at once is parsed as a tag.
C24_UnknownTagSpan ==
    (stage = "parsed" /\ known = {<<"T">>}) =>
        /\ source = Tag("U") =>
              /\ parsed.st = "ok"
              /\ parsed.nodes = <<RawNode(Tag("U"))>>
              /\ parsed.pos = Len(source)
        /\ source = FollowedTagSource =>
              /\ parsed.st = "ok"
              /\ parsed.nodes = <<RawNode(Tag("U")),
                                  ComponentNode(<<"T">>, NoAttrs, <<RawNode(<<"x">>)>>)>>


\* C25: a bare attribute name followed by a space, a tab, a newline or ">"
\* is recorded with the value "true"; the name ends before the ">" and the
\* attribute parser stops on it, so the tag and its children parse as usual.
C25_BooleanAttribute ==
    (stage = "parsed" /\ known = {<<"T">>}) =>
        \A sep \in NameEnds :
            source = BareAttributeSource(sep) =>
                /\ parsed.st = "ok"
                /\ parsed.nodes =
                      <<ComponentNode(<<"T">>, PutAttr(NoAttrs, <<"a">>, <<"true">>),
                                      <<RawNode(<<"x">>)>>)>>


\* C26: but for the values of the identifiers, compilation is deterministic.
\* For the same tree and the same identifiers drawn, whatever the runtime
\* decides during the compilation, the output is the same text: the define
\* blocks in the same order and the attributes of each callout in the same
\* order.
C26_CompileDeterministic ==
    (stage = "compiled" /\ compiled.st = "ok") =>
        \A ord \in MapOrders : compile(parsed.nodes, RandomStream, ord) = compiled


\* the names of the component types of the program
ProgramNames == {NameOf(in) : in \in program.regs}

\* the template t was compiled from the source src, with some set of known
\* components and some decisions of the runtime
CompiledFrom(t, src) ==
    \E K \in SUBSET ProgramNames, o \in Oracles :
        LET Same(n) == n.st = "ok" /\ n.t.content = t.content
        IN  Same(New(t.Name, K, src, o))

\* C27: the template map holds, for every component, a template compiled
\* from the source it was last registered with.  Registering another
\* component, one that an earlier version of the template referenced
\* included, never puts the earlier version back.
C27_LatestSourceKept ==
    \A n \in 1 .. Len(log) :
        Standing(n) =>
            /\ NameOf(log[n].in) \in DOMAIN templateMap
            /\ CompiledFrom(templateMap[NameOf(log[n].in)], log[n].in.tmpl)


\* C28: the deferred table holds under each pending name at most one
\* template per template name, so that registering the pending component
\* recompiles each dependent template once: the templates deferred on one
\* name are never more than the registered templates.
C28_DeferredOnce ==
    \A k \in DOMAIN recompileMap :
        /\ \A i, j \in 1 .. Len(recompileMap[k]) :
               i # j => recompileMap[k][i].Name # recompileMap[k][j].Name
        /\ Len(recompileMap[k]) <= Cardinality(DOMAIN templateMap)


\* the field chains of FlatPieces and how they read with the carrier at
\* the head of the path only
ChainedPieces == { Action(ChainedRef), Action(VariableFieldRef) }
HeadCarrier(c) ==
    IF c = Action(ChainedRef) THEN Action(<<".", dotPrefix, ".", "N", ".", "L">>)
    ELSE Action(<<".", localsPrefix, ".", "x", ".", "N">>)

\* C29: a chained field path in hoisted content gets the carrier once, at
\* the head of the path: .N.L reads .glam__dot__.N.L and $x.N reads
\* .glam__locals__.x.N, the later segments left as they are.
C29_ChainedPath ==
    (stage = "compiled" /\ known = {<<"T">>}) =>
        \A chain \in ChainedPieces :
            source = FlatSource(chain, <<"x">>) =>
                /\ compiled.st = "ok"
                /\ EndsWith(compiled.content,
                            defineText(Identifier(0), HeadCarrier(chain) \o <<"x">>))


\* where the callouts of a compiled text start
CalloutPositions(content) ==
    {n \in 1 .. (Len(content) - 8) :
        content[n] = "{" /\ content[n + 1] = "{" /\ content[n + 2] = RenderFunc[1]}

\* the block identifier of the callout that starts at n: the second quoted
\* argument, after the name of the component
CalloutIdentifier(content, n) ==
    QuotedAt(content, n + 7 + Len(QuotedAt(content, n + 4)))

\* the define block that starts at n follows the end of a block, or the
\* main body: it does not lie inside another block
AfterBlockEnd(content, n) ==
    \/ n = FirstDefine(content)
    \/ n > 5 /\ SubSeq(content, n - 5, n - 1) = Action(<<"end">>)

=============================================================================
